---- MODULE Spec2Model ----
(***************************************************************************)
(* Model of the Mesh class of xcx-mesh (src/unnamed/part_002, the current  *)
(* mesh.js used by src/src/vm/extensions/block/index.js; the handshake,    *)
(* variable replication, close and registry code is identical in           *)
(* src/src/vm/extensions/block/mesh.js).                                   *)
(*                                                                         *)
(* Every Mesh instance (a Node) runs on a JavaScript event loop: each      *)
(* action below is one public method call or one transport callback, run   *)
(* to completion.  The PeerJS transport is modelled at its boundary: a     *)
(* DataConnection is a pair of endpoints ("ini" = the side that called     *)
(* peer.connect, "res" = the side that got the 'connection' event), each   *)
(* with an `open` flag, its installed handlers and an ordered inbox.       *)
(***************************************************************************)
EXTENDS Integers, Sequences, FiniteSets, TLC

\* ------------------------------------------------------------------ bounds
\* What the application and the clock may do over one run of specification
\* Spec (the life cycle of two nodes from construction on):
MaxOpens == 3       \* openPeer calls
MaxCloses == 1      \* closePeer and closeDataConnection calls
MaxConns == 2       \* openDataConnection calls
MaxWrites == 1      \* setSharedVar calls
\* and over one run of the specifications of three linked nodes:
MaxFloodWrites == 2 \* setSharedVar calls (SpecVars)
MaxFloodEvents == 2 \* dispatchSharedEvent calls (SpecEvents)
MaxFloodTicks == 1  \* milliseconds that pass (SpecEvents)
\* and over one run of the life cycle with a failing transport (SpecFaults):
MaxFaults == 1      \* connections the transport fails
MaxFaultOpens == 2  \* openPeer calls
\* dispatchSharedEvent calls and clock ticks of a run that fills the event buffer
MaxBufferEvents == 12
MaxBufferTicks == 2
\* dispatchSharedEvent calls of the node outside the cycle (SpecRing)
MaxRingEvents == 2
MaxRingConns == 1

\* ------------------------------------------------------------ value domains
Node == {"a", "b", "c"}           \* Mesh instances (one per process)
LifeNode == {"a", "b"}            \* the instances specification Spec runs
IDs == {"a", "b"}                 \* mesh identities they may open under
Keys == {"x", "y"}
Values == {"1", "2"}
EventTypes == {"move", "stop"}
EventData == {"left"}
Null == "null"                    \* JavaScript null
Undef == "undefined"              \* JavaScript undefined (Map.get miss)
Sides == {"ini", "res"}

Other(s) == IF s = "ini" THEN "res" ELSE "ini"

\* --------------------------------------------------- JavaScript Map helpers
\* A Map is kept as the sequence of its <<key, value>> entries in insertion
\* order, which is the order Array.from(map) and map.keys() enumerate.
MapHas(m, k) == \E i \in DOMAIN m : m[i][1] = k

MapGet(m, k) ==
    IF MapHas(m, k) THEN m[CHOOSE i \in DOMAIN m : m[i][1] = k][2] ELSE Undef

MapSet(m, k, v) ==
    IF MapHas(m, k)
    THEN [i \in DOMAIN m |-> IF m[i][1] = k THEN <<k, v>> ELSE m[i]]
    ELSE Append(m, <<k, v>>)

MapKeys(m) == [i \in DOMAIN m |-> m[i][1]]

MapValues(m) == {m[i][2] : i \in DOMAIN m}

\* ---------------------------------------------------------------- state
VARIABLES
    peer,               \* this.peer: [st, id]; st = "null" | "opening" | "open"
    id,                 \* this.id
    connections,        \* this.connections: Map remoteID -> endpoint <<c, side>>
    sharedVars,         \* this.sharedVars: Map key -> value
    sharedEventBuffer,  \* this.sharedEventBuffer
    sharedEventIndex,   \* this.sharedEventIndex
    lastMeshEvent,      \* last event handed to this.eventListeners
    conns,              \* transport: the DataConnections created so far
    returned,           \* what openPeer / openDataConnection gave their caller
    now,                \* Date.now()
    budget,             \* calls and clock ticks the run may still make
    ice,                \* this.iceServers, this.ICEServers, the Peer's options
    blocks,             \* MeshBlocks: the block layer over each Mesh
    channels,           \* SharedDataChannel variant: Mesh.channels
    links,              \* SharedDataChannel variant: the DataConnections
    codec               \* an identity on its way through the codec

vars == <<peer, id, connections, sharedVars, sharedEventBuffer,
          sharedEventIndex, lastMeshEvent, conns, returned, now, budget,
          ice, blocks, channels, links, codec>>

\* The state beside the Mesh object of part_002: no method of that Mesh
\* touches it.
layers == <<blocks, channels, links, codec>>

NoPeer == [st |-> "null", id |-> <<>>]
NoMeshEvent == [type |-> "", data |-> ""]

\* Nothing called yet: openPeer holds the state of the Promise of every
\* openPeer call so far ("pending", "resolved", "rejected"), openDataConnection
\* the outcome of the last openDataConnection call: kind = "threw" (an Error
\* was thrown), "rejected", "resolved" (with the connection ep) or "pending"
\* (a new connection ep was requested; its Promise is conns[c].promise);
\* nextSharedEvent what the last nextSharedEvent call returned.
NoReturn == [openPeer |-> <<>>, nextSharedEvent |-> [type |-> "none"],
             openDataConnection |-> [kind |-> "none", ep |-> <<0, "none">>]]

\* null and undefined where a JavaScript object is expected; an array is
\* [type |-> "array", items |-> its elements]
JSNull == [type |-> Null]
JSUndefined == [type |-> Undef]

\* new Mesh(): this.iceServers = null, this.ICEServers not yet a property;
\* config is the options.config.iceServers of the last new Peer(...).
\* new MeshBlocks(runtime): processingSharedEvent = null, isPeerOpening not
\* yet set (falsy), and startSharedEventProcessing() has armed the timer of
\* nextEvent.  timer is the callback setTimeout holds ("none": no timer is
\* armed), threads the number of threads started for processingSharedEvent
\* that are still in runtime.threads.
\* new Mesh() of the SharedDataChannel variant: no channel yet.
\* No identity is on its way through the codec.
InitLayers ==
    /\ ice = [n \in Node |-> [iceServers |-> JSNull, ICEServers |-> JSUndefined,
                              config |-> JSUndefined]]
    /\ blocks = [n \in Node |-> [processingSharedEvent |-> JSNull,
                                 isPeerOpening |-> FALSE,
                                 timer |-> "nextEvent", threads |-> 0]]
    /\ channels = [reg |-> <<>>, objs |-> <<>>, result |-> "none"]
    /\ links = <<>>
    /\ codec = [stage |-> "identity", meshID |-> <<>>, peerID |-> <<>>,
                decoded |-> <<>>]

Init ==
    /\ peer = [n \in Node |-> NoPeer]
    /\ id = [n \in Node |-> Null]
    /\ connections = [n \in Node |-> <<>>]
    /\ sharedVars = [n \in Node |-> <<>>]
    /\ sharedEventBuffer = [n \in Node |-> <<>>]
    /\ sharedEventIndex = [n \in Node |-> 0]
    /\ lastMeshEvent = [n \in Node |-> NoMeshEvent]
    /\ conns = <<>>
    /\ returned = [n \in Node |-> NoReturn]
    /\ now = 0
    /\ budget = [opens |-> MaxOpens, closes |-> MaxCloses, conns |-> MaxConns,
                 writes |-> MaxWrites, events |-> 0, ticks |-> 0, faults |-> 0, reads |-> 0]
    /\ InitLayers

\* ------------------------------------------------------------ identity codec
\* encodeToPeerID wraps the (base64) text of the mesh identity in "0".."0";
\* decodeFromPeerID strips the first and the last element again.
encodeToPeerID(meshID) == <<"0", meshID, "0">>

decodeFromPeerID(peerID) == peerID[2]

\* The codec on the characters of an identity.  A text is a sequence of
\* one-character strings, a byte string a sequence of numbers 0..255.
\* encodeToPeerID above is the same wrapping on an identity taken as a whole.
IdChars == {"a", "m", "0", "%", " ", "e'"}       \* e' is U+00E9

\* The UTF-8 bytes of a character
Utf8(c) ==
    CASE c = "a" -> <<97>> [] c = "m" -> <<109>> [] c = "0" -> <<48>>
      [] c = "%" -> <<37>> [] c = " " -> <<32>> [] c = "e'" -> <<195, 169>>

HexDigits == <<48, 49, 50, 51, 52, 53, 54, 55, 56, 57, 65, 66, 67, 68, 69, 70>>

\* encodeURIComponent(text): the ASCII bytes of the escaped text; the
\* characters a, m and 0 are left as they are, every byte of another
\* character becomes %XX.
RECURSIVE encodeURIComponent(_)
encodeURIComponent(text) ==
    LET bytes == Utf8(text[1])
        escape(b) == <<37, HexDigits[(b \div 16) + 1], HexDigits[(b % 16) + 1]>>
    IN IF text = <<>> THEN <<>>
       ELSE (IF text[1] \in {"a", "m", "0"} THEN bytes
             ELSE IF Len(bytes) = 1 THEN escape(bytes[1])
             ELSE escape(bytes[1]) \o escape(bytes[2]))
                \o encodeURIComponent(Tail(text))

\* The bytes behind the %XX escapes; -1 stands for the URIError of a
\* malformed escape.
RECURSIVE unescapeBytes(_)
unescapeBytes(bytes) ==
    LET IsHex(b) == \E i \in DOMAIN HexDigits : HexDigits[i] = b
        HexVal(b) == (CHOOSE i \in DOMAIN HexDigits : HexDigits[i] = b) - 1
    IN IF bytes = <<>> THEN <<>>
       ELSE IF bytes[1] = 37
       THEN IF Len(bytes) >= 3 /\ IsHex(bytes[2]) /\ IsHex(bytes[3])
            THEN <<HexVal(bytes[2]) * 16 + HexVal(bytes[3])>>
                     \o unescapeBytes(SubSeq(bytes, 4, Len(bytes)))
            ELSE <<-1>>
       ELSE <<bytes[1]>> \o unescapeBytes(Tail(bytes))

\* The characters of a UTF-8 byte string; "?" stands for what is no
\* character of IdChars.
RECURSIVE utf8Decode(_)
utf8Decode(bytes) ==
    LET IsPrefix(p) == Len(p) <= Len(bytes) /\ SubSeq(bytes, 1, Len(p)) = p
    IN IF bytes = <<>> THEN <<>>
       ELSE IF \E c \in IdChars : IsPrefix(Utf8(c))
       THEN LET c == CHOOSE d \in IdChars : IsPrefix(Utf8(d))
            IN <<c>> \o utf8Decode(SubSeq(bytes, Len(Utf8(c)) + 1, Len(bytes)))
       ELSE <<"?">>

\* decodeURIComponent(bytes)
decodeURIComponent(bytes) == utf8Decode(unescapeBytes(bytes))

\* The base64 alphabet, value 0 first
Base64 ==
    << "A", "B", "C", "D", "E", "F", "G", "H", "I", "J", "K", "L", "M",
       "N", "O", "P", "Q", "R", "S", "T", "U", "V", "W", "X", "Y", "Z",
       "a", "b", "c", "d", "e", "f", "g", "h", "i", "j", "k", "l", "m",
       "n", "o", "p", "q", "r", "s", "t", "u", "v", "w", "x", "y", "z",
       "0", "1", "2", "3", "4", "5", "6", "7", "8", "9", "+", "/" >>

\* btoa(bytes): the base64 text of a byte string
RECURSIVE btoa(_)
btoa(bytes) ==
    IF bytes = <<>> THEN <<>>
    ELSE IF Len(bytes) = 1
    THEN <<Base64[(bytes[1] \div 4) + 1], Base64[(bytes[1] % 4) * 16 + 1],
           "=", "=">>
    ELSE IF Len(bytes) = 2
    THEN <<Base64[(bytes[1] \div 4) + 1],
           Base64[(bytes[1] % 4) * 16 + (bytes[2] \div 16) + 1],
           Base64[(bytes[2] % 16) * 4 + 1], "=">>
    ELSE <<Base64[(bytes[1] \div 4) + 1],
           Base64[(bytes[1] % 4) * 16 + (bytes[2] \div 16) + 1],
           Base64[(bytes[2] % 16) * 4 + (bytes[3] \div 64) + 1],
           Base64[(bytes[3] % 64) + 1]>>
             \o btoa(SubSeq(bytes, 4, Len(bytes)))

\* atob(text): the byte string of a base64 text; <<-1>> stands for the
\* InvalidCharacterError of a text that is no base64.
RECURSIVE atob(_)
atob(text) ==
    LET IsBase64(c) == \E i \in DOMAIN Base64 : Base64[i] = c
        Base64Val(c) == (CHOOSE i \in DOMAIN Base64 : Base64[i] = c) - 1
    IN
    IF text = <<>> THEN <<>>
    ELSE IF Len(text) < 4 \/ ~IsBase64(text[1]) \/ ~IsBase64(text[2])
    THEN <<-1>>
    ELSE LET v1 == Base64Val(text[1])
             v2 == Base64Val(text[2])
         IN IF text[3] = "="
            THEN IF Len(text) = 4 /\ text[4] = "="
                 THEN <<v1 * 4 + (v2 \div 16)>> ELSE <<-1>>
            ELSE IF ~IsBase64(text[3]) THEN <<-1>>
            ELSE IF text[4] = "="
            THEN IF Len(text) = 4
                 THEN <<v1 * 4 + (v2 \div 16),
                        (v2 % 16) * 16 + (Base64Val(text[3]) \div 4)>>
                 ELSE <<-1>>
            ELSE IF ~IsBase64(text[4]) THEN <<-1>>
            ELSE <<v1 * 4 + (v2 \div 16),
                   (v2 % 16) * 16 + (Base64Val(text[3]) \div 4),
                   (Base64Val(text[3]) % 4) * 64 + Base64Val(text[4])>>
                     \o atob(SubSeq(text, 5, Len(text)))

\* text.replace(/pattern/g, replacement): leftmost matches, left to right
RECURSIVE replaceAll(_, _, _)
replaceAll(text, pattern, replacement) ==
    IF Len(text) < Len(pattern) THEN text
    ELSE IF SubSeq(text, 1, Len(pattern)) = pattern
    THEN replacement
             \o replaceAll(SubSeq(text, Len(pattern) + 1, Len(text)),
                           pattern, replacement)
    ELSE <<text[1]>> \o replaceAll(Tail(text), pattern, replacement)

\* '0equal0'
Equal0 == <<"0", "e", "q", "u", "a", "l", "0">>

\* .replace(/0equal0/g, '=') that replaces nothing (mutant of restorePadding)
restorePadding_None(text) == text

\* .replace(/0equal0/g, '=')
restorePadding(text) == replaceAll(text, Equal0, <<"=">>)

\* encodeToPeerID(meshID) on the characters of meshID
encodeToPeerIDText(meshID) ==
    replaceAll(<<"0">> \o btoa(encodeURIComponent(meshID)) \o <<"0">>,
               <<"=">>, Equal0)

\* decodeFromPeerID(peerID) on the characters of peerID
decodeFromPeerIDText(peerID) ==
    decodeURIComponent(atob(restorePadding(SubSeq(peerID, 2, Len(peerID) - 1))))

\* An identity is encoded for the transport, and the transport's identifier
\* decoded again.
EncodeToPeerID ==
    /\ codec.stage = "identity"
    /\ codec' = [codec EXCEPT !.stage = "encoded",
                              !.peerID = encodeToPeerIDText(codec.meshID)]
    /\ UNCHANGED <<ice, blocks, channels, links, peer, id, connections,
                   sharedVars, sharedEventBuffer, sharedEventIndex, lastMeshEvent,
                   conns, returned, now, budget>>

DecodeFromPeerID ==
    /\ codec.stage = "encoded"
    /\ codec' = [codec EXCEPT !.stage = "decoded",
                              !.decoded = decodeFromPeerIDText(codec.peerID)]
    /\ UNCHANGED <<ice, blocks, channels, links, peer, id, connections,
                   sharedVars, sharedEventBuffer, sharedEventIndex, lastMeshEvent,
                   conns, returned, now, budget>>

\* ------------------------------------------------------ transport (PeerJS)
NoEp == <<0, "none">>

\* conn.open of the endpoint ep = <<c, side>>
IsOpen(cs, ep) == cs[ep[1]].st[ep[2]] \in {"sync", "setup"}

\* The endpoints a registry (this.connections) holds, in insertion order.
Registered(reg) == {reg[i][2] : i \in DOMAIN reg}

\* A relay that reaches no connection (mutant of SendTargets).
SendTargets_NoRelay(reg, except) ==
    IF except = NoEp THEN Registered(reg) ELSE {}

\* A relay that also answers on the connection the message came from (mutant
\* of SendTargets).
SendTargets_Echo(reg, except) == Registered(reg)

\* The connections a send loop reaches: this.connections.forEach(conn =>
\* { if (conn !== connection) conn.send(data) }), every registered connection
\* when the message does not come from one (except = NoEp).
SendTargets(reg, except) == Registered(reg) \ {except}

\* for (const connection of this.connections.values()) connection.send(msg),
\* skipping `except'.  send() on a connection that is not open sends nothing
\* (PeerJS emits 'error' on it instead); a message for an endpoint that has
\* already closed is lost.
Broadcast(cs, reg, except, msg) ==
    LET targets == SendTargets(reg, except)
    IN [c \in DOMAIN cs |->
          [cs[c] EXCEPT !.inbox =
              [s \in Sides |->
                  IF /\ <<c, Other(s)>> \in targets
                     /\ IsOpen(cs, <<c, Other(s)>>)
                     /\ cs[c].st[s] # "closed"
                  THEN Append(cs[c].inbox[s], msg)
                  ELSE cs[c].inbox[s]]]]

\* The 'error' handler of _setupDataConnection: the notification left by the
\* sends of one broadcast that hit a connection which is not open.
SendErrors(cs, reg, except, last) ==
    LET bad == {i \in DOMAIN reg : reg[i][2] # except /\ ~IsOpen(cs, reg[i][2])}
    IN IF bad = {} THEN last
       ELSE [type |-> "dataConnectionError",
             data |-> reg[CHOOSE i \in bad : \A j \in bad : j <= i][1]]

\* A send that transmits nothing (mutant of SendOn)
SendOn_Dropped(cs, ep, msg) == cs

\* connection.send(msg) on one endpoint
SendOn(cs, ep, msg) ==
    IF IsOpen(cs, ep) /\ cs[ep[1]].st[Other(ep[2])] # "closed"
    THEN [cs EXCEPT ![ep[1]].inbox[Other(ep[2])] = Append(@, msg)]
    ELSE cs

\* ------------------------------------------------------------ Mesh methods
\* A method's effect on the parts of the state it touches is a record
\* [cs, sv, me]: the transport, this.sharedVars and the last mesh event.
setSharedVar(S, n, key, value) ==
    LET data == [type |-> "var", sender |-> id[n], time |-> now,
                 key |-> key, value |-> value]
    IN [cs |-> Broadcast(S.cs, connections[n], NoEp, data),
        sv |-> MapSet(S.sv, key, value),
        me |-> SendErrors(S.cs, connections[n], NoEp, S.me)]

\* data.vars.forEach(([key, value]) => this.setSharedVar(key, value))
RECURSIVE MergeVars(_, _, _)
MergeVars(S, n, pairs) ==
    IF pairs = <<>> THEN S
    ELSE MergeVars(setSharedVar(S, n, pairs[1][1], pairs[1][2]), n, Tail(pairs))

sharedVar(n, key) == MapGet(sharedVars[n], key)

dataConnectionCount(n) == Len(connections[n])

dataConnectionIDAt(n, index) ==
    IF index + 1 \in DOMAIN connections[n]
    THEN MapKeys(connections[n])[index + 1] ELSE Undef

\* A registry lookup that never finds an open link (mutant of
\* isDataConnectionOpen)
isDataConnectionOpen_Never(n, remoteID) == FALSE

isDataConnectionOpen(n, remoteID) ==
    /\ MapHas(connections[n], remoteID)
    /\ IsOpen(conns, MapGet(connections[n], remoteID))

\* --------------------------------------------------------------- closing
\* The endpoints of node n the transport still holds (not yet closed).
EndpointsAt(cs, n) ==
    {ep \in (DOMAIN cs) \X Sides :
        cs[ep[1]].node[ep[2]] = n /\ cs[ep[1]].st[ep[2]] \notin {"none", "closed"}}

\* connection.close() on every endpoint of eps: open becomes false, the
\* handlers are detached and what was waiting in its inbox is never delivered.
CloseAll(cs, eps) ==
    [c \in DOMAIN cs |->
        [cs[c] EXCEPT
            !.st = [s \in Sides |->
                      IF <<c, s>> \in eps /\ cs[c].st[s] # "none"
                      THEN "closed" ELSE cs[c].st[s]],
            !.inbox = [s \in Sides |->
                      IF <<c, s>> \in eps THEN <<>> ELSE cs[c].inbox[s]]]]

\* The 'close' handler of _setupDataConnection runs for every endpoint of eps
\* that was set up and open; the notification of the last one stays.
CloseNotice(cs, eps, last) ==
    LET fired == {ep \in eps : cs[ep[1]].st[ep[2]] = "setup"}
    IN IF fired = {} THEN last
       ELSE LET ep == CHOOSE e \in fired : \A f \in fired : f[1] <= e[1]
            IN [type |-> "dataConnectionClosed", data |-> cs[ep[1]].remote[ep[2]]]

\* closePeer() whose peer.destroy() leaves the connections outside the
\* registry alone (mutant of closePeerTargets)
closePeerTargets_Registered(n) == Registered(connections[n])

\* closePeer() that closes no connection (mutant of closePeerTargets)
closePeerTargets_None(n) == {}

\* What closePeer() closes: every registered connection, and through
\* peer.destroy() every other connection of the Peer object.
closePeerTargets(n) ==
    Registered(connections[n]) \cup
    (IF peer[n].st # "null" THEN EndpointsAt(conns, n) ELSE {})

\* closePeer() without this.connections.clear() (mutant of closePeerRegistry)
closePeerRegistry_NoClear(reg) == reg

\* closePeer(): the registry after this.connections.clear()
closePeerRegistry(reg) == <<>>

\* closePeer() that also empties the store (mutant of closePeerVars)
closePeerVars_Cleared(sv) == <<>>

\* closePeer(): this.sharedVars is not touched
closePeerVars(sv) == sv

\* _registerDataConnection(connection, remoteID)
registerDataConnection(reg, ep, remoteID) == MapSet(reg, remoteID, ep)

\* closeDataConnection(remoteID): the registry afterwards
closeDataConnectionRegistry(reg, remoteID) == reg

\* ------------------------------------------------------------- shared events
sharedEventBufferLength == 10

\* An event counts as received once its sender was seen (mutant of received)
received_SenderSeen(buffer, data) ==
    \E i \in DOMAIN buffer : buffer[i].sender = data.sender

\* `received' of the 'event' branch of _setupDataConnection
received(buffer, data) ==
    /\ Len(buffer) > 0
    /\ \A i \in DOMAIN buffer :
          /\ buffer[i].sender = data.sender
          /\ buffer[i].time = data.time
          /\ buffer[i].type = data.type
          /\ buffer[i].eventType = data.eventType
          /\ buffer[i].eventData = data.eventData

\* A buffer that never shifts (mutant of onSharedEvent).
onSharedEvent_NoShift(buf, idx, event) ==
    [buf |-> Append(buf, event), idx |-> idx]

\* onSharedEvent(event): [buf, idx] afterwards
onSharedEvent(buf, idx, event) ==
    LET pushed == Append(buf, event)
    IN IF Len(pushed) > sharedEventBufferLength
       THEN [buf |-> Tail(pushed), idx |-> IF idx - 1 < 0 THEN 0 ELSE idx - 1]
       ELSE [buf |-> pushed, idx |-> idx]

\* ------------------------------------------------------------------ actions
\* closePeer() as a step of node n; used by openPeer and the peer 'error'
\* handler too.
ClosePeerEffect(n, newPeer) ==
    LET eps == closePeerTargets(n)
    IN /\ conns' = CloseAll(conns, eps)
       /\ lastMeshEvent' = [lastMeshEvent EXCEPT ![n] = CloseNotice(conns, eps, @)]
       /\ connections' = [connections EXCEPT ![n] = closePeerRegistry(@)]
       /\ sharedVars' = [sharedVars EXCEPT ![n] = closePeerVars(@)]
       /\ peer' = [peer EXCEPT ![n] = newPeer]
       /\ id' = [id EXCEPT ![n] = IF peer[n].st # "null" THEN Null ELSE @]

ClosePeer(n) ==
    /\ budget.closes > 0
    /\ budget' = [budget EXCEPT !.closes = @ - 1]
    /\ ClosePeerEffect(n, NoPeer)
    /\ UNCHANGED <<layers, ice, returned, sharedEventBuffer, sharedEventIndex, now>>

\* resolve / reject that leave the Promise as it is (mutant of Settle)
Settle_Ignored(ret, state) == ret

\* The Promise of the latest openPeer call settles.
Settle(ret, state) ==
    [ret EXCEPT !.openPeer =
        [i \in DOMAIN @ |-> IF i = Len(@) /\ @[i] = "pending" THEN state ELSE @[i]]]

\* openPeer that takes every call for a new binding (mutant of alreadyOpen)
alreadyOpen_Never(n, localID) == FALSE

\* this.peer && this.id === localID && !this.peer.disconnected
alreadyOpen(n, localID) == peer[n].st # "null" /\ id[n] = localID

\* iceServers: this.iceServers ? this.iceServers : []
iceServersOption(mesh) ==
    IF mesh.iceServers \in {JSNull, JSUndefined}
    THEN [type |-> "array", items |-> <<>>] ELSE mesh.iceServers

\* openPeer(localID), up to the construction of the Peer object.  The
\* signalling connection is taken to stay up while the Peer exists, so
\* this.peer.disconnected is false.
openPeer(n, localID) ==
    /\ budget.opens > 0
    /\ budget' = [budget EXCEPT !.opens = @ - 1]
    /\ IF alreadyOpen(n, localID)
       THEN /\ returned' = [returned EXCEPT ![n].openPeer = Append(@, "resolved")]
            /\ UNCHANGED <<peer, id, connections, sharedVars, lastMeshEvent, conns,
                           ice>>
       ELSE /\ returned' = [returned EXCEPT ![n].openPeer = Append(@, "pending")]
            /\ ice' = [ice EXCEPT ![n].config = iceServersOption(ice[n])]
            /\ IF peer[n].st # "null"
               THEN ClosePeerEffect(n, [st |-> "opening",
                                        id |-> encodeToPeerID(localID)])
               ELSE /\ peer' = [peer EXCEPT
                            ![n] = [st |-> "opening", id |-> encodeToPeerID(localID)]]
                    /\ UNCHANGED <<id, connections, sharedVars, lastMeshEvent, conns>>
    /\ UNCHANGED <<sharedEventBuffer, sharedEventIndex, now>>

\* openPeer(localID) called by the application
OpenPeer(n, localID) == openPeer(n, localID) /\ UNCHANGED layers

\* The identity a Peer asks for is free when no other open Peer holds it.
IdFree(n) ==
    \A m \in Node \ {n} : ~(peer[m].st = "open" /\ peer[m].id = peer[n].id)

\* this.peer.on('open', peerID => ...)
PeerOnOpen(n) ==
    /\ peer[n].st = "opening"
    /\ IdFree(n)
    /\ peer' = [peer EXCEPT ![n].st = "open"]
    /\ id' = [id EXCEPT ![n] = decodeFromPeerID(peer[n].id)]
    /\ returned' = [returned EXCEPT ![n] = Settle(@, "resolved")]
    /\ UNCHANGED <<layers, ice, connections, sharedVars, sharedEventBuffer, sharedEventIndex,
                   lastMeshEvent, conns, now, budget>>

\* this.peer.on('error', err => { this.closePeer(); reject(err); }) when the
\* server refuses the identity
PeerOnError(n) ==
    /\ peer[n].st = "opening"
    /\ ~IdFree(n)
    /\ ClosePeerEffect(n, NoPeer)
    /\ returned' = [returned EXCEPT ![n] = Settle(@, "rejected")]
    /\ UNCHANGED <<layers, ice, sharedEventBuffer, sharedEventIndex, now, budget>>

\* this.peer.on('error', err => { this.closePeer(); reject(err); }) when the
\* server finds no Peer under the identity connection c asks for (PeerJS
\* raises 'peer-unavailable' on the Peer object of the caller).  The Promise
\* of openPeer is settled already; nothing settles the one of connection c.
PeerOnUnavailable(c) ==
    /\ conns[c].st.ini = "connecting" /\ conns[c].st.res = "none"
    /\ peer[conns[c].node.ini].st = "open"
    /\ \A m \in Node : ~(peer[m].st = "open" /\ peer[m].id = conns[c].target)
    /\ ClosePeerEffect(conns[c].node.ini, NoPeer)
    /\ returned' = [returned EXCEPT ![conns[c].node.ini] = Settle(@, "rejected")]
    /\ UNCHANGED <<layers, ice, sharedEventBuffer, sharedEventIndex, now, budget>>

\* openDataConnection(remoteID), up to this.peer.connect(...); remoteID = ""
\* is the empty string.  A node does not ask for a connection to the
\* identity it holds itself.
OpenDataConnection(n, remoteID) ==
    /\ budget.conns > 0
    /\ budget' = [budget EXCEPT !.conns = @ - 1]
    /\ peer[n].st # "null" => remoteID # decodeFromPeerID(peer[n].id)
    /\ IF peer[n].st = "null"
       THEN /\ returned' = [returned EXCEPT ![n].openDataConnection =
                                [kind |-> "threw", ep |-> NoEp]]
            /\ UNCHANGED conns
       ELSE IF remoteID = ""
       THEN /\ returned' = [returned EXCEPT ![n].openDataConnection =
                                [kind |-> "rejected", ep |-> NoEp]]
            /\ UNCHANGED conns
       ELSE IF isDataConnectionOpen(n, remoteID)
       THEN /\ returned' = [returned EXCEPT ![n].openDataConnection =
                                [kind |-> "resolved",
                                 ep |-> MapGet(connections[n], remoteID)]]
            /\ UNCHANGED conns
       ELSE /\ returned' = [returned EXCEPT ![n].openDataConnection =
                                [kind |-> "pending",
                                 ep |-> <<Len(conns) + 1, "ini">>]]
            /\ conns' = Append(conns,
                   [node |-> [ini |-> n, res |-> Null],
                    target |-> encodeToPeerID(remoteID),
                    remote |-> [ini |-> remoteID, res |-> Null],
                    st |-> [ini |-> "connecting", res |-> "none"],
                    inbox |-> [ini |-> <<>>, res |-> <<>>],
                    promise |-> "pending"])
    /\ UNCHANGED <<layers, ice, peer, id, connections, sharedVars, sharedEventBuffer,
                   sharedEventIndex, lastMeshEvent, now>>

\* this.peer.on('connection', requested => ...) at the node that holds the
\* target identity
PeerOnConnection(c, m) ==
    /\ conns[c].st.ini = "connecting" /\ conns[c].st.res = "none"
    /\ peer[conns[c].node.ini].st = "open"
    /\ m # conns[c].node.ini
    /\ peer[m].st = "open" /\ peer[m].id = conns[c].target
    /\ conns' = [conns EXCEPT
           ![c].node.res = m,
           ![c].remote.res = decodeFromPeerID(peer[conns[c].node.ini].id),
           ![c].st.res = "connecting"]
    /\ UNCHANGED <<layers, ice, peer, id, returned, connections, sharedVars, sharedEventBuffer,
                   sharedEventIndex, lastMeshEvent, now, budget>>

\* newConnection.on('open', ...): installs onSyncRequest
NewConnectionOnOpen(c) ==
    /\ conns[c].st.ini = "connecting"
    /\ conns[c].st.res \in {"connecting", "sync"}
    /\ conns' = [conns EXCEPT ![c].st.ini = "sync"]
    /\ UNCHANGED <<layers, ice, peer, id, returned, connections, sharedVars, sharedEventBuffer,
                   sharedEventIndex, lastMeshEvent, now, budget>>

\* requested.on('open', ...): installs onSyncAnswer and sends syncRequest
RequestedOnOpen(c) ==
    /\ conns[c].st.res = "connecting"
    /\ conns[c].st.ini \in {"connecting", "sync"}
    /\ LET m == conns[c].node.res
           syncRequest == [type |-> "control", command |-> "syncRequest",
                           sender |-> id[m], time |-> now,
                           vars |-> sharedVars[m]]
       IN conns' = SendOn([conns EXCEPT ![c].st.res = "sync"],
                          <<c, "res">>, syncRequest)
    /\ UNCHANGED <<layers, ice, peer, id, returned, connections, sharedVars, sharedEventBuffer,
                   sharedEventIndex, lastMeshEvent, now, budget>>

\* The state a handler of endpoint <<c, s>> starts from, its message taken
\* from the inbox.
Taken(c, s) ==
    [cs |-> [conns EXCEPT ![c].inbox[s] = Tail(@)],
     sv |-> sharedVars[conns[c].node[s]],
     me |-> lastMeshEvent[conns[c].node[s]]]

\* onSyncRequest (initiator): merge, answer, set up, register, notify
OnSyncRequest(c) ==
    /\ conns[c].st.ini = "sync"
    /\ conns[c].inbox.ini # <<>>
    /\ LET n == conns[c].node.ini
           data == Head(conns[c].inbox.ini)
           remoteID == conns[c].remote.ini
       IN IF data.type = "control" /\ data.command = "syncRequest"
          THEN LET S == MergeVars(Taken(c, "ini"), n, data.vars)
                   syncAnswer == [type |-> "control", command |-> "syncAnswer",
                                  sender |-> id[n], time |-> now, vars |-> S.sv]
                   sent == SendOn(S.cs, <<c, "ini">>, syncAnswer)
               IN /\ conns' = [sent EXCEPT ![c].st.ini = "setup",
                                            ![c].promise = "resolved"]
                  /\ sharedVars' = [sharedVars EXCEPT ![n] = S.sv]
                  /\ connections' = [connections EXCEPT
                         ![n] = registerDataConnection(@, <<c, "ini">>, remoteID)]
                  /\ lastMeshEvent' = [lastMeshEvent EXCEPT
                         ![n] = [type |-> "dataConnectionOpened", data |-> remoteID]]
          ELSE /\ conns' = Taken(c, "ini").cs
               /\ UNCHANGED <<sharedVars, connections, lastMeshEvent>>
    /\ UNCHANGED <<layers, ice, peer, id, returned, sharedEventBuffer, sharedEventIndex, now, budget>>

\* onSyncAnswer (responder): merge, set up, register, notify
OnSyncAnswer(c) ==
    /\ conns[c].st.res = "sync"
    /\ conns[c].inbox.res # <<>>
    /\ LET n == conns[c].node.res
           data == Head(conns[c].inbox.res)
           remoteID == conns[c].remote.res
       IN IF data.type = "control" /\ data.command = "syncAnswer"
          THEN LET S == MergeVars(Taken(c, "res"), n, data.vars)
               IN /\ conns' = [S.cs EXCEPT ![c].st.res = "setup"]
                  /\ sharedVars' = [sharedVars EXCEPT ![n] = S.sv]
                  /\ connections' = [connections EXCEPT
                         ![n] = registerDataConnection(@, <<c, "res">>, remoteID)]
                  /\ lastMeshEvent' = [lastMeshEvent EXCEPT
                         ![n] = [type |-> "dataConnectionRequested", data |-> remoteID]]
          ELSE /\ conns' = Taken(c, "res").cs
               /\ UNCHANGED <<sharedVars, connections, lastMeshEvent>>
    /\ UNCHANGED <<layers, ice, peer, id, returned, sharedEventBuffer, sharedEventIndex, now, budget>>

\* A 'var' handler that takes every envelope for a change (mutant of
\* varChanged).
varChanged_Always(n, data) == TRUE

\* if (this.sharedVars.get(data.key) !== data.value)
varChanged(n, data) == sharedVar(n, data.key) # data.value

\* connection.on('data', ...) of _setupDataConnection, 'var' branch
OnVar(c, s) ==
    /\ conns[c].st[s] = "setup"
    /\ conns[c].inbox[s] # <<>>
    /\ Head(conns[c].inbox[s]).type = "var"
    /\ LET n == conns[c].node[s]
           data == Head(conns[c].inbox[s])
           T == Taken(c, s)
       IN IF varChanged(n, data)
          THEN /\ conns' = Broadcast(T.cs, connections[n], <<c, s>>, data)
               /\ lastMeshEvent' = [lastMeshEvent EXCEPT
                      ![n] = SendErrors(T.cs, connections[n], <<c, s>>, @)]
               /\ sharedVars' = [sharedVars EXCEPT
                      ![n] = MapSet(@, data.key, data.value)]
          ELSE /\ conns' = T.cs
               /\ UNCHANGED <<sharedVars, lastMeshEvent>>
    /\ UNCHANGED <<layers, ice, peer, id, returned, connections, sharedEventBuffer, sharedEventIndex,
                   now, budget>>

\* A handler that never takes an envelope for its own (mutant of ownEvent).
ownEvent_Never(n, data) == FALSE

\* if (data.sender === this.id) return;
ownEvent(n, data) == data.sender = id[n]

\* connection.on('data', ...) of _setupDataConnection, 'event' branch
OnEvent(c, s) ==
    /\ conns[c].st[s] = "setup"
    /\ conns[c].inbox[s] # <<>>
    /\ Head(conns[c].inbox[s]).type = "event"
    /\ LET n == conns[c].node[s]
           data == Head(conns[c].inbox[s])
           T == Taken(c, s)
       IN IF ~ownEvent(n, data) /\ ~received(sharedEventBuffer[n], data)
          THEN LET R == onSharedEvent(sharedEventBuffer[n], sharedEventIndex[n], data)
               IN /\ conns' = Broadcast(T.cs, connections[n], <<c, s>>, data)
                  /\ lastMeshEvent' = [lastMeshEvent EXCEPT
                         ![n] = SendErrors(T.cs, connections[n], <<c, s>>, @)]
                  /\ sharedEventBuffer' = [sharedEventBuffer EXCEPT ![n] = R.buf]
                  /\ sharedEventIndex' = [sharedEventIndex EXCEPT ![n] = R.idx]
          ELSE /\ conns' = T.cs
               /\ UNCHANGED <<sharedEventBuffer, sharedEventIndex, lastMeshEvent>>
    /\ UNCHANGED <<layers, ice, peer, id, returned, connections, sharedVars, now, budget>>

\* connection.on('data', ...) of _setupDataConnection: any other message
OnOtherData(c, s) ==
    /\ conns[c].st[s] = "setup"
    /\ conns[c].inbox[s] # <<>>
    /\ Head(conns[c].inbox[s]).type \notin {"var", "event"}
    /\ conns' = Taken(c, s).cs
    /\ UNCHANGED <<layers, ice, peer, id, returned, connections, sharedVars, sharedEventBuffer,
                   sharedEventIndex, lastMeshEvent, now, budget>>

\* The transport tells endpoint <<c, s>> that the other end has closed; the
\* 'close' handler of _setupDataConnection runs if the endpoint was set up.
OnRemoteClose(c, s) ==
    /\ conns[c].st[Other(s)] = "closed"
    /\ conns[c].st[s] \notin {"none", "closed"}
    /\ conns' = CloseAll(conns, {<<c, s>>})
    /\ lastMeshEvent' = [lastMeshEvent EXCEPT
           ![conns[c].node[s]] = CloseNotice(conns, {<<c, s>>}, @)]
    /\ UNCHANGED <<layers, ice, peer, id, returned, connections, sharedVars, sharedEventBuffer,
                   sharedEventIndex, now, budget>>

\* The transport fails endpoint <<c, s>> (PeerJS: the negotiation of the
\* connection fails or its channel breaks): it emits 'error' on the
\* connection and closes it.  newConnection.on('error', err => reject(err))
\* rejects the Promise of openDataConnection if it is pending; on a set-up
\* connection the 'error' and then the 'close' handler of
\* _setupDataConnection notify the listeners.
ConnectionOnError(c, s) ==
    /\ budget.faults > 0
    /\ budget' = [budget EXCEPT !.faults = @ - 1]
    /\ conns[c].st[s] \notin {"none", "closed"}
    /\ conns' = CloseAll([conns EXCEPT ![c].promise =
                              IF s = "ini" /\ @ = "pending" THEN "rejected" ELSE @],
                         {<<c, s>>})
    /\ lastMeshEvent' = [lastMeshEvent EXCEPT
           ![conns[c].node[s]] = CloseNotice(conns, {<<c, s>>}, @)]
    /\ UNCHANGED <<layers, ice, peer, id, returned, connections, sharedVars, sharedEventBuffer,
                   sharedEventIndex, now>>

\* closeDataConnection(remoteID)
CloseDataConnection(n, remoteID) ==
    /\ budget.closes > 0
    /\ budget' = [budget EXCEPT !.closes = @ - 1]
    /\ LET eps == IF isDataConnectionOpen(n, remoteID)
                  THEN {MapGet(connections[n], remoteID)} ELSE {}
       IN /\ conns' = CloseAll(conns, eps)
          /\ lastMeshEvent' = [lastMeshEvent EXCEPT ![n] = CloseNotice(conns, eps, @)]
    /\ connections' = [connections EXCEPT
           ![n] = closeDataConnectionRegistry(@, remoteID)]
    /\ UNCHANGED <<layers, ice, peer, id, returned, sharedVars, sharedEventBuffer, sharedEventIndex,
                   now>>

\* setSharedVar(key, value) called by the application
SetSharedVar(n, key, value) ==
    /\ budget.writes > 0
    /\ budget' = [budget EXCEPT !.writes = @ - 1]
    /\ LET S == setSharedVar([cs |-> conns, sv |-> sharedVars[n],
                              me |-> lastMeshEvent[n]], n, key, value)
       IN /\ conns' = S.cs
          /\ sharedVars' = [sharedVars EXCEPT ![n] = S.sv]
          /\ lastMeshEvent' = [lastMeshEvent EXCEPT ![n] = S.me]
    /\ UNCHANGED <<layers, ice, peer, id, returned, connections, sharedEventBuffer, sharedEventIndex,
                   now>>

\* dispatchSharedEvent(type, data) called by the application
DispatchSharedEvent(n, type, data) ==
    /\ budget.events > 0
    /\ budget' = [budget EXCEPT !.events = @ - 1]
    /\ LET event == [sender |-> id[n], time |-> now, type |-> "event",
                     eventType |-> type, eventData |-> data]
           R == onSharedEvent(sharedEventBuffer[n], sharedEventIndex[n], event)
       IN /\ conns' = Broadcast(conns, connections[n], NoEp, event)
          /\ lastMeshEvent' = [lastMeshEvent EXCEPT
                 ![n] = SendErrors(conns, connections[n], NoEp, @)]
          /\ sharedEventBuffer' = [sharedEventBuffer EXCEPT ![n] = R.buf]
          /\ sharedEventIndex' = [sharedEventIndex EXCEPT ![n] = R.idx]
    /\ UNCHANGED <<layers, ice, peer, id, returned, connections, sharedVars, now>>

\* nextSharedEvent() that hands out the event without moving on (mutant of
\* nextSharedEvent)
nextSharedEvent_NoAdvance(buf, idx) ==
    IF Len(buf) <= idx THEN [event |-> JSUndefined, idx |-> idx]
    ELSE [event |-> buf[idx + 1], idx |-> idx]

\* nextSharedEvent(): [event, idx], the value returned and the index after
\* the call (buf is indexed from 1, the JavaScript array from 0)
nextSharedEvent(buf, idx) ==
    IF Len(buf) <= idx THEN [event |-> JSUndefined, idx |-> idx]
    ELSE [event |-> buf[idx + 1], idx |-> idx + 1]

\* nextSharedEvent() called by the application
NextSharedEvent(n) ==
    /\ budget.reads > 0
    /\ budget' = [budget EXCEPT !.reads = @ - 1]
    /\ LET R == nextSharedEvent(sharedEventBuffer[n], sharedEventIndex[n])
       IN /\ sharedEventIndex' = [sharedEventIndex EXCEPT ![n] = R.idx]
          /\ returned' = [returned EXCEPT ![n].nextSharedEvent = R.event]
    /\ UNCHANGED <<layers, ice, peer, id, connections, sharedVars,
                   sharedEventBuffer, lastMeshEvent, conns, now>>

\* ------------------------------------------------- block layer (MeshBlocks)
MaxHats == 1

\* A check that never finds a started thread running (mutant of waiting)
waiting_Never(b) == FALSE

\* waiting: some thread of event.startedThreads is still in runtime.threads
waiting(b) == b.threads > 0

\* processSharedEvent(event, onCompletion) on its first call for the event,
\* where startHats starts `hats' threads: without a started thread it
\* returns at once and arms no timer; otherwise the threads were started in
\* this very call, are all running, and the timer of the next call is armed.
processSharedEvent(b, hats) ==
    IF hats = 0
    THEN [b EXCEPT !.threads = 0, !.timer = "none"]
    ELSE [b EXCEPT !.threads = hats, !.timer = "processSharedEvent"]

\* nextEvent() of startSharedEventProcessing, run by node n
nextEvent(n, hats) ==
    LET R == nextSharedEvent(sharedEventBuffer[n], sharedEventIndex[n])
    IN /\ sharedEventIndex' = [sharedEventIndex EXCEPT ![n] = R.idx]
       /\ returned' = [returned EXCEPT ![n].nextSharedEvent = R.event]
       /\ blocks' = [blocks EXCEPT ![n] =
              IF R.event = JSUndefined
              THEN [@ EXCEPT !.timer = "nextEvent"]
              ELSE processSharedEvent(
                       [@ EXCEPT !.processingSharedEvent = R.event], hats)]

\* setTimeout(nextEvent, ...) fires
NextEventTimer(n) ==
    /\ blocks[n].timer = "nextEvent"
    /\ \E hats \in 0..MaxHats : nextEvent(n, hats)
    /\ UNCHANGED <<ice, channels, links, codec, peer, id, connections, sharedVars,
                   sharedEventBuffer, lastMeshEvent, conns, now, budget>>

\* setTimeout(() => this.processSharedEvent(event, onCompletion), ...) fires:
\* the threads exist already; while one is running the timer is armed
\* again, otherwise onCompletion (nextEvent) runs.
ProcessSharedEventTimer(n) ==
    /\ blocks[n].timer = "processSharedEvent"
    /\ IF waiting(blocks[n])
       THEN UNCHANGED <<blocks, sharedEventIndex, returned>>
       ELSE \E hats \in 0..MaxHats : nextEvent(n, hats)
    /\ UNCHANGED <<ice, channels, links, codec, peer, id, connections, sharedVars,
                   sharedEventBuffer, lastMeshEvent, conns, now, budget>>

\* The runtime retires a thread started for the event being processed.
ThreadRetired(n) ==
    /\ blocks[n].threads > 0
    /\ blocks' = [blocks EXCEPT ![n].threads = @ - 1]
    /\ UNCHANGED <<ice, channels, links, codec, peer, id, connections, sharedVars,
                   sharedEventBuffer, sharedEventIndex, lastMeshEvent, conns,
                   returned, now, budget>>

\* The openPeer block, up to `await this.mesh.openPeer(localID)'.  While
\* isPeerOpening is set the block yields and is run again later.
BlockOpenPeer(n, localID) ==
    /\ ~blocks[n].isPeerOpening
    /\ blocks' = [blocks EXCEPT ![n].isPeerOpening = TRUE]
    /\ openPeer(n, localID)
    /\ UNCHANGED <<channels, links, codec>>

\* The openPeer block from the await on, once the Promise of the
\* mesh.openPeer call is settled: try or catch, then
\* `finally { this.isPeerOpening = false; }'
BlockOpenPeerFinally(n) ==
    /\ blocks[n].isPeerOpening
    /\ Len(returned[n].openPeer) > 0
    /\ returned[n].openPeer[Len(returned[n].openPeer)] # "pending"
    /\ blocks' = [blocks EXCEPT ![n].isPeerOpening = FALSE]
    /\ UNCHANGED <<ice, channels, links, codec, peer, id, connections, sharedVars,
                   sharedEventBuffer, sharedEventIndex, lastMeshEvent, conns,
                   returned, now, budget>>

\* ------------------------------------ SharedDataChannel variant (part_001)
\* One Mesh of that variant with its Peer open.  channels.reg is
\* Mesh.channels (remoteID -> index into channels.objs), channels.objs the
\* SharedDataChannel objects created so far, channels.result what the last
\* setSharedVar / dispatchSharedEvent call on a channel did: "not connected"
\* or "sent" (this.connection.send was called).  links are the
\* DataConnections: channel is the object whose handlers _openConnection
\* attached, promise the Promise of that _openConnection call, deletes
\* whether connectDataChannel chained its .catch to it.
RemoteIDs == {"b", "c"}

\* _getOrCreateChannel(remoteID): [ch, index of the channel], with
\* new SharedDataChannel(peer, remoteID) for a remote ID not registered
getOrCreateChannel(ch, remoteID) ==
    IF MapHas(ch.reg, remoteID)
    THEN [ch |-> ch, o |-> MapGet(ch.reg, remoteID)]
    ELSE [ch |-> [ch EXCEPT
                     !.objs = Append(@, [remoteID |-> remoteID, connection |-> 0,
                                         state |-> "created", sharedVars |-> <<>>,
                                         lastEvent |-> [type |-> "", data |-> ""]]),
                     !.reg = MapSet(@, remoteID, Len(ch.objs) + 1)],
          o |-> Len(ch.objs) + 1]

NewLink(o, deletes) ==
    [channel |-> o, st |-> "connecting", promise |-> "pending",
     deletes |-> deletes, sent |-> <<>>]

\* connectDataChannel(remoteID) with the Peer open and remoteID not empty
ConnectDataChannel(remoteID) ==
    /\ budget.conns > 0
    /\ budget' = [budget EXCEPT !.conns = @ - 1]
    /\ LET G == getOrCreateChannel(channels, remoteID)
       IN IF G.ch.objs[G.o].state = "open"
          THEN channels' = G.ch /\ UNCHANGED links
          ELSE /\ channels' = [G.ch EXCEPT !.objs[G.o].state = "opening",
                                          !.objs[G.o].connection = Len(links) + 1]
               /\ links' = Append(links, NewLink(G.o, TRUE))
    /\ UNCHANGED <<ice, blocks, codec, peer, id, connections, sharedVars,
                   sharedEventBuffer, sharedEventIndex, lastMeshEvent, conns,
                   returned, now>>

\* this.peer.on('connection', dataConnection => ...): the remote Mesh
\* remoteID asks for a connection
ChannelRequested(remoteID) ==
    /\ budget.opens > 0
    /\ budget' = [budget EXCEPT !.opens = @ - 1]
    /\ LET G == getOrCreateChannel(channels, remoteID)
       IN /\ channels' = [G.ch EXCEPT !.objs[G.o].connection = Len(links) + 1]
          /\ links' = Append(links, NewLink(G.o, FALSE))
    /\ UNCHANGED <<ice, blocks, codec, peer, id, connections, sharedVars,
                   sharedEventBuffer, sharedEventIndex, lastMeshEvent, conns,
                   returned, now>>

\* this.connection.on('open', ...) of _openConnection
ChannelOnOpen(l) ==
    /\ links[l].st = "connecting"
    /\ links' = [links EXCEPT ![l].st = "open", ![l].promise = "resolved"]
    /\ channels' = [channels EXCEPT !.objs[links[l].channel].state = "open"]
    /\ UNCHANGED <<ice, blocks, codec, peer, id, connections, sharedVars,
                   sharedEventBuffer, sharedEventIndex, lastMeshEvent, conns,
                   returned, now, budget>>

\* The 'error' handler of _openConnection on link l: the state becomes
\* 'error'; reject settles the Promise if it is still pending, and then the
\* .catch of connectDataChannel deletes the registry entry of the remote ID.
onChannelError(ch, ls, l) ==
    LET o == ls[l].channel
        failed == [ch EXCEPT !.objs[o].state = "error"]
    IN [ch |-> IF ls[l].promise = "pending" /\ ls[l].deletes
               THEN [failed EXCEPT
                        !.reg = SelectSeq(@, LAMBDA e : e[1] # ch.objs[o].remoteID)]
               ELSE failed,
        ls |-> [ls EXCEPT ![l].promise =
                              IF @ = "pending" THEN "rejected" ELSE @,
                          ![l].st = IF @ = "connecting" THEN "failed" ELSE @]]

\* The transport raises 'error' on a connection that is being set up or is
\* open.
ChannelOnError(l) ==
    /\ budget.faults > 0
    /\ budget' = [budget EXCEPT !.faults = @ - 1]
    /\ links[l].st \in {"connecting", "open"}
    /\ LET E == onChannelError(channels, links, l)
       IN channels' = E.ch /\ links' = E.ls
    /\ UNCHANGED <<ice, blocks, codec, peer, id, connections, sharedVars,
                   sharedEventBuffer, sharedEventIndex, lastMeshEvent, conns,
                   returned, now>>

\* this.connection.on('close', ...) of _openConnection
onChannelClose(ch, ls, l) ==
    [ch |-> [ch EXCEPT !.objs[ls[l].channel].state = "closed"],
     ls |-> [ls EXCEPT ![l].st = "closed"]]

\* The remote end closes the open connection l.
ChannelOnClose(l) ==
    /\ budget.closes > 0
    /\ budget' = [budget EXCEPT !.closes = @ - 1]
    /\ links[l].st = "open"
    /\ LET E == onChannelClose(channels, links, l)
       IN channels' = E.ch /\ links' = E.ls
    /\ UNCHANGED <<ice, blocks, codec, peer, id, connections, sharedVars,
                   sharedEventBuffer, sharedEventIndex, lastMeshEvent, conns,
                   returned, now>>

\* disconnectDataChannel(remoteID): channel.close() unless isClosed(); the
\* connection is closed if it is open, which runs the 'close' handler.
DisconnectDataChannel(remoteID) ==
    /\ budget.closes > 0
    /\ budget' = [budget EXCEPT !.closes = @ - 1]
    /\ MapHas(channels.reg, remoteID)
    /\ LET o == MapGet(channels.reg, remoteID)
           l == channels.objs[o].connection
       IN IF channels.objs[o].state # "closed" /\ l # 0 /\ links[l].st = "open"
          THEN LET E == onChannelClose(channels, links, l)
               IN channels' = E.ch /\ links' = E.ls
          ELSE UNCHANGED <<channels, links>>
    /\ UNCHANGED <<ice, blocks, codec, peer, id, connections, sharedVars,
                   sharedEventBuffer, sharedEventIndex, lastMeshEvent, conns,
                   returned, now>>

\* `!this.state === 'open'': the negation binds first, so a boolean is
\* compared with the string 'open'; x === y holds for equal types and equal
\* values.
notConnected(state) ==
    LET strictEquals(x, y) == x.t = y.t /\ x.v = y.v
    IN strictEquals([t |-> "boolean", v |-> (state = "")],
                    [t |-> "string", v |-> "open"])

\* this.connection.send(msg) on link l: an open connection sends; on any
\* other the transport raises 'error' on the connection instead.
channelSend(ch, ls, l, msg) ==
    IF ls[l].st = "open"
    THEN [ch |-> ch, ls |-> [ls EXCEPT ![l].sent = Append(@, msg)]]
    ELSE onChannelError(ch, ls, l)

\* channel.setSharedVar(key, value) on the channel registered for remoteID
ChannelSetSharedVar(remoteID, key, value) ==
    /\ budget.writes > 0
    /\ budget' = [budget EXCEPT !.writes = @ - 1]
    /\ MapHas(channels.reg, remoteID)
    /\ LET o == MapGet(channels.reg, remoteID)
       IN IF notConnected(channels.objs[o].state)
          THEN /\ channels' = [channels EXCEPT !.result = "not connected"]
               /\ UNCHANGED links
          ELSE LET set == [channels EXCEPT
                              !.objs[o].sharedVars = MapSet(@, key, value),
                              !.result = "sent"]
                   S == channelSend(set, links, channels.objs[o].connection,
                                    [type |-> "var", key |-> key, value |-> value])
               IN channels' = S.ch /\ links' = S.ls
    /\ UNCHANGED <<ice, blocks, codec, peer, id, connections, sharedVars,
                   sharedEventBuffer, sharedEventIndex, lastMeshEvent, conns,
                   returned, now>>

\* channel.dispatchSharedEvent(type, data) on the channel registered for
\* remoteID, with the onSharedEvent call behind its await
ChannelDispatchSharedEvent(remoteID, type, data) ==
    /\ budget.events > 0
    /\ budget' = [budget EXCEPT !.events = @ - 1]
    /\ MapHas(channels.reg, remoteID)
    /\ LET o == MapGet(channels.reg, remoteID)
       IN IF notConnected(channels.objs[o].state)
          THEN /\ channels' = [channels EXCEPT !.result = "not connected"]
               /\ UNCHANGED links
          ELSE LET S == channelSend([channels EXCEPT !.result = "sent"], links,
                                    channels.objs[o].connection,
                                    [type |-> "event", eventType |-> type,
                                     eventData |-> data])
               IN /\ channels' = [S.ch EXCEPT !.objs[o].lastEvent =
                                                 [type |-> type, data |-> data]]
                  /\ links' = S.ls
    /\ UNCHANGED <<ice, blocks, codec, peer, id, connections, sharedVars,
                   sharedEventBuffer, sharedEventIndex, lastMeshEvent, conns,
                   returned, now>>

\* ----------------------------------------------------------- ICE servers
\* The texts setICEServers is given, as sequences of JSON tokens; "stun" and
\* "turn" stand for the text of one server object each.
ICETexts ==
    { <<"[", "]">>, <<"stun">>, <<"[", "stun", "]">>, <<"stun", ",", "turn">>,
      <<"[", "stun", ",", "turn", "]">>, <<"[", "stun">>, <<"stun", ",">> }

\* setICEServers(servers): JSON.parse throws on a text it does not accept,
\* and then nothing is stored.
SetICEServers(n, servers) ==
    /\ budget.writes > 0
    /\ budget' = [budget EXCEPT !.writes = @ - 1]
    /\ LET \* if (servers.charAt(0) !== '[') servers = `[${servers}]`
           text == IF Len(servers) > 0 /\ servers[1] = "[" THEN servers
                   ELSE <<"[">> \o servers \o <<"]">>
           body == SubSeq(text, 2, Len(text) - 1)
           \* whether JSON.parse accepts the text: an array of values
           \* separated by single commas
           parses ==
               /\ Len(text) >= 2 /\ text[1] = "[" /\ text[Len(text)] = "]"
               /\ body = <<>> \/ Len(body) % 2 = 1
               /\ \A i \in DOMAIN body :
                     IF i % 2 = 1 THEN body[i] \in {"stun", "turn"}
                     ELSE body[i] = ","
           \* JSON.parse(text) of an accepted text
           parsed == [type |-> "array",
                      items |-> [i \in 1..((Len(body) + 1) \div 2) |->
                                    body[2 * i - 1]]]
       IN IF parses
          THEN ice' = [ice EXCEPT ![n].ICEServers = parsed]
          ELSE UNCHANGED ice
    /\ UNCHANGED <<layers, peer, id, connections, sharedVars, sharedEventBuffer,
                   sharedEventIndex, lastMeshEvent, conns, returned, now>>

\* The millisecond clock behind Date.now() advances.
Tick ==
    /\ budget.ticks > 0
    /\ budget' = [budget EXCEPT !.ticks = @ - 1]
    /\ now' = now + 1
    /\ UNCHANGED <<layers, ice, peer, id, returned, connections, sharedVars, sharedEventBuffer,
                   sharedEventIndex, lastMeshEvent, conns>>

\* Steps of the transport and of the handlers it calls.
Transport ==
    \/ \E n \in Node : PeerOnOpen(n)
    \/ \E n \in Node : PeerOnError(n)
    \/ \E c \in DOMAIN conns : PeerOnUnavailable(c)
    \/ \E c \in DOMAIN conns, m \in Node : PeerOnConnection(c, m)
    \/ \E c \in DOMAIN conns : NewConnectionOnOpen(c)
    \/ \E c \in DOMAIN conns : RequestedOnOpen(c)
    \/ \E c \in DOMAIN conns : OnSyncRequest(c)
    \/ \E c \in DOMAIN conns : OnSyncAnswer(c)
    \/ \E c \in DOMAIN conns, s \in Sides : OnVar(c, s)
    \/ \E c \in DOMAIN conns, s \in Sides : OnRemoteClose(c, s)

\* Calls of the application into the Mesh.
Calls ==
    \/ \E n \in LifeNode, localID \in IDs : OpenPeer(n, localID)
    \/ \E n \in LifeNode : ClosePeer(n)
    \/ \E n \in LifeNode, remoteID \in IDs \cup {""} : OpenDataConnection(n, remoteID)
    \/ \E n \in LifeNode, remoteID \in IDs : CloseDataConnection(n, remoteID)
    \/ \E n \in LifeNode, key \in Keys, value \in Values : SetSharedVar(n, key, value)

Next == Calls \/ Transport

\* The life cycle of two Mesh instances from their construction on.
Spec == Init /\ [][Next]_vars

\* The life cycle when the transport may fail a connection.
InitFaults ==
    /\ peer = [n \in Node |-> NoPeer]
    /\ id = [n \in Node |-> Null]
    /\ connections = [n \in Node |-> <<>>]
    /\ sharedVars = [n \in Node |-> <<>>]
    /\ sharedEventBuffer = [n \in Node |-> <<>>]
    /\ sharedEventIndex = [n \in Node |-> 0]
    /\ lastMeshEvent = [n \in Node |-> NoMeshEvent]
    /\ conns = <<>>
    /\ returned = [n \in Node |-> NoReturn]
    /\ now = 0
    /\ budget = [opens |-> MaxFaultOpens, closes |-> MaxCloses, conns |-> MaxConns,
                 writes |-> MaxWrites, events |-> 0, ticks |-> 0,
                 faults |-> MaxFaults, reads |-> 0]
    /\ InitLayers

NextFaults ==
    \/ Calls
    \/ Transport
    \/ \E c \in DOMAIN conns, s \in Sides : ConnectionOnError(c, s)

SpecFaults == InitFaults /\ [][NextFaults]_vars

\* ------------------------------------------------- replication on a mesh
\* Three nodes, each open under its own name, after the handshakes of the
\* links of one connected graph have completed: topo[i] = <<u, v>> is the
\* link node u opened to node v by openDataConnection(v).
Topologies ==
    { << <<"a", "b">>, <<"b", "c">> >>,
      << <<"b", "a">>, <<"c", "a">> >>,
      << <<"a", "c">>, <<"b", "c">> >>,
      << <<"b", "a">>, <<"c", "b">>, <<"a", "c">> >> }

Link(u, v) ==
    [node |-> [ini |-> u, res |-> v],
     target |-> encodeToPeerID(v),
     remote |-> [ini |-> v, res |-> u],
     st |-> [ini |-> "setup", res |-> "setup"],
     inbox |-> [ini |-> <<>>, res |-> <<>>],
     promise |-> "resolved"]

\* The registry of node n once the links of topo were registered in order.
RECURSIVE RegistryOf(_, _, _)
RegistryOf(n, topo, i) ==
    IF i = 0 THEN <<>>
    ELSE LET reg == RegistryOf(n, topo, i - 1)
         IN IF topo[i][1] = n
            THEN registerDataConnection(reg, <<i, "ini">>, topo[i][2])
            ELSE IF topo[i][2] = n
            THEN registerDataConnection(reg, <<i, "res">>, topo[i][1])
            ELSE reg

LinkedNotice(reg) ==
    [type |-> IF reg[Len(reg)][2][2] = "ini"
              THEN "dataConnectionOpened" ELSE "dataConnectionRequested",
     data |-> reg[Len(reg)][1]]

InitMesh(topo, store, b) ==
    /\ peer = [n \in Node |-> [st |-> "open", id |-> encodeToPeerID(n)]]
    /\ id = [n \in Node |-> n]
    /\ connections = [n \in Node |-> RegistryOf(n, topo, Len(topo))]
    /\ sharedVars = [n \in Node |-> store]
    /\ sharedEventBuffer = [n \in Node |-> <<>>]
    /\ sharedEventIndex = [n \in Node |-> 0]
    /\ lastMeshEvent = [n \in Node |-> LinkedNotice(RegistryOf(n, topo, Len(topo)))]
    /\ conns = [i \in DOMAIN topo |-> Link(topo[i][1], topo[i][2])]
    /\ returned = [n \in Node |->
           [openPeer |-> <<"resolved">>,
            nextSharedEvent |-> [type |-> "none"],
            openDataConnection |->
                IF \E i \in DOMAIN topo : topo[i][1] = n
                THEN [kind |-> "pending",
                      ep |-> <<CHOOSE i \in DOMAIN topo :
                                  /\ topo[i][1] = n
                                  /\ \A j \in DOMAIN topo : topo[j][1] = n => j <= i,
                              "ini">>]
                ELSE NoReturn.openDataConnection]]
    /\ now = 0
    /\ budget = b
    /\ InitLayers

NoBudget == [opens |-> 0, closes |-> 0, conns |-> 0, writes |-> 0,
             events |-> 0, ticks |-> 0, faults |-> 0, reads |-> 0]

Deliver(c, s) == c \in DOMAIN conns /\ (OnVar(c, s) \/ OnEvent(c, s))

\* The transport is reliable and the event loop runs every pending callback:
\* a message waiting at an endpoint is eventually handed to its handler.
Fairness == \A c \in 1..3, s \in Sides : WF_vars(Deliver(c, s))

\* Variable replication: any nodes write any keys, also concurrently.
InitVars ==
    \E topo \in Topologies :
        InitMesh(topo, <<>>, [NoBudget EXCEPT !.writes = MaxFloodWrites])

NextVars ==
    \/ \E n \in Node, key \in Keys, value \in Values : SetSharedVar(n, key, value)
    \/ \E c \in DOMAIN conns, s \in Sides : OnVar(c, s)

SpecVars == InitVars /\ [][NextVars]_vars /\ Fairness

\* Variable replication when every key is written at most once in the mesh.
Unwritten(key) ==
    /\ \A n \in Node : ~MapHas(sharedVars[n], key)
    /\ \A c \in DOMAIN conns, s \in Sides :
          \A i \in DOMAIN conns[c].inbox[s] : conns[c].inbox[s][i].key # key

InitOnce ==
    \E topo \in Topologies :
        InitMesh(topo, <<>>, [NoBudget EXCEPT !.writes = Cardinality(Keys)])

NextOnce ==
    \/ \E n \in Node, key \in Keys, value \in Values :
           Unwritten(key) /\ SetSharedVar(n, key, value)
    \/ \E c \in DOMAIN conns, s \in Sides : OnVar(c, s)

SpecOnce == InitOnce /\ [][NextOnce]_vars /\ Fairness

\* Event broadcast.
InitEvents ==
    \E topo \in Topologies :
        InitMesh(topo, <<>>, [NoBudget EXCEPT !.events = MaxFloodEvents,
                                              !.ticks = MaxFloodTicks])

NextEvents ==
    \/ \E n \in Node, type \in EventTypes, data \in EventData :
           DispatchSharedEvent(n, type, data)
    \/ \E c \in DOMAIN conns, s \in Sides : OnEvent(c, s)
    \/ Tick

SpecEvents == InitEvents /\ [][NextEvents]_vars /\ Fairness

\* A single writer: only node a writes, key x, the values of WriterValues in
\* that order.
WriterValues == <<"1", "2">>

InitWriter ==
    \E topo \in Topologies :
        InitMesh(topo, <<>>, [NoBudget EXCEPT !.writes = Len(WriterValues)])

NextWriter ==
    \/ /\ budget.writes > 0
       /\ SetSharedVar("a", "x", WriterValues[Len(WriterValues) - budget.writes + 1])
    \/ \E c \in DOMAIN conns, s \in Sides : OnVar(c, s)

SpecWriter == InitWriter /\ [][NextWriter]_vars /\ Fairness

\* A fourth node, for a mesh with a cycle that does not contain the node that
\* dispatches: a, b, c, d are linked in a chain, a dispatches, and d then
\* connects to b, which closes the cycle b, c, d.
RingNode == Node \cup {"d"}

RingTopology == << <<"a", "b">>, <<"b", "c">>, <<"c", "d">> >>

InitRing ==
    /\ peer = [n \in RingNode |-> [st |-> "open", id |-> encodeToPeerID(n)]]
    /\ id = [n \in RingNode |-> n]
    /\ connections = [n \in RingNode |-> RegistryOf(n, RingTopology, Len(RingTopology))]
    /\ sharedVars = [n \in RingNode |-> <<>>]
    /\ sharedEventBuffer = [n \in RingNode |-> <<>>]
    /\ sharedEventIndex = [n \in RingNode |-> 0]
    /\ lastMeshEvent = [n \in RingNode |->
           LinkedNotice(RegistryOf(n, RingTopology, Len(RingTopology)))]
    /\ conns = [i \in DOMAIN RingTopology |->
           Link(RingTopology[i][1], RingTopology[i][2])]
    /\ returned = [n \in RingNode |->
           [openPeer |-> <<"resolved">>,
            nextSharedEvent |-> [type |-> "none"],
            openDataConnection |->
                IF \E i \in DOMAIN RingTopology : RingTopology[i][1] = n
                THEN [kind |-> "pending",
                      ep |-> <<CHOOSE i \in DOMAIN RingTopology :
                                  RingTopology[i][1] = n, "ini">>]
                ELSE NoReturn.openDataConnection]]
    /\ now = 0
    /\ budget = [NoBudget EXCEPT !.events = MaxRingEvents, !.conns = MaxRingConns]
    /\ InitLayers

\* One family of schedules: a takes what b relays back to it (and drops it,
\* being the sender) before any other endpoint is served.
RingDeliver(c, s) ==
    /\ <<c, s>> = <<1, "ini">> \/ conns[1].inbox.ini = <<>>
    /\ OnEvent(c, s)

\* d calls openDataConnection("b") once b has relayed what a dispatched.
RingJoin ==
    /\ budget.events = 0
    /\ conns[1].inbox.res = <<>>
    /\ OpenDataConnection("d", "b")

\* The steps of the handshake of the connection d makes to b.
RingHandshake(c) ==
    /\ c \in DOMAIN conns
    /\ \/ PeerOnConnection(c, "b")
       \/ NewConnectionOnOpen(c)
       \/ RequestedOnOpen(c)
       \/ OnSyncRequest(c)
       \/ OnSyncAnswer(c)

NextRing ==
    \/ \E type \in EventTypes, data \in EventData :
           DispatchSharedEvent("a", type, data)
    \/ \E c \in DOMAIN conns, s \in Sides : RingDeliver(c, s)
    \/ RingJoin
    \/ \E c \in DOMAIN conns : RingHandshake(c)

\* Every envelope that waits at an endpoint is eventually handed to its
\* handler, whatever the schedule, and a handshake that has started goes on.
FairRing ==
    \A c \in 1..(Len(RingTopology) + MaxRingConns) :
        /\ WF_vars(RingHandshake(c))
        /\ \A s \in Sides : WF_vars(Deliver(c, s))

SpecRing == InitRing /\ [][NextRing]_vars /\ FairRing

\* One node of a chain dispatches more events than the buffer holds.
InitBuffer ==
    InitMesh(<< <<"a", "b">>, <<"b", "c">> >>, <<>>,
             [NoBudget EXCEPT !.events = MaxBufferEvents,
                              !.ticks = MaxBufferTicks])

NextBuffer ==
    \/ \E data \in EventData : DispatchSharedEvent("a", "move", data)
    \/ \E c \in DOMAIN conns, s \in Sides : OnEvent(c, s)
    \/ Tick

SpecBuffer == InitBuffer /\ [][NextBuffer]_vars /\ Fairness

\* The block layer of every node of a chain takes the events node a
\* dispatches.
MaxBlockEvents == 2

InitBlocks ==
    InitMesh(<< <<"a", "b">>, <<"b", "c">> >>, <<>>,
             [NoBudget EXCEPT !.events = MaxBlockEvents])

NextBlocks ==
    \/ \E type \in EventTypes, data \in EventData :
           DispatchSharedEvent("a", type, data)
    \/ \E c \in DOMAIN conns, s \in Sides : OnEvent(c, s)
    \/ \E n \in Node : NextEventTimer(n)
    \/ \E n \in Node : ProcessSharedEventTimer(n)
    \/ \E n \in Node : ThreadRetired(n)

\* Timers fire, and the scripts the hats start come to an end.
FairBlocks ==
    /\ Fairness
    /\ \A n \in Node : /\ WF_vars(NextEventTimer(n))
                        /\ WF_vars(ProcessSharedEventTimer(n))
                        /\ WF_vars(ThreadRetired(n))

SpecBlocks == InitBlocks /\ [][NextBlocks]_vars /\ FairBlocks

\* The openPeer and closePeer blocks of two nodes from construction on.
MaxGuardOpens == 3

InitGuard ==
    /\ peer = [n \in Node |-> NoPeer]
    /\ id = [n \in Node |-> Null]
    /\ connections = [n \in Node |-> <<>>]
    /\ sharedVars = [n \in Node |-> <<>>]
    /\ sharedEventBuffer = [n \in Node |-> <<>>]
    /\ sharedEventIndex = [n \in Node |-> 0]
    /\ lastMeshEvent = [n \in Node |-> NoMeshEvent]
    /\ conns = <<>>
    /\ returned = [n \in Node |-> NoReturn]
    /\ now = 0
    /\ budget = [NoBudget EXCEPT !.opens = MaxGuardOpens, !.closes = MaxCloses]
    /\ InitLayers

NextGuard ==
    \/ \E n \in LifeNode, localID \in IDs : BlockOpenPeer(n, localID)
    \/ \E n \in LifeNode : BlockOpenPeerFinally(n)
    \/ \E n \in LifeNode : ClosePeer(n)
    \/ \E n \in LifeNode : PeerOnOpen(n)
    \/ \E n \in LifeNode : PeerOnError(n)

\* The signalling server answers every Peer, and the code behind a settled
\* await runs.
FairGuard ==
    \A n \in LifeNode : /\ WF_vars(PeerOnOpen(n))
                        /\ WF_vars(PeerOnError(n))
                        /\ WF_vars(BlockOpenPeerFinally(n))

SpecGuard == InitGuard /\ [][NextGuard]_vars /\ FairGuard

\* One node of a chain dispatches more events than the buffer holds while
\* the application of each node takes events from its Mesh.
MaxReads == 2
MaxReadEvents == 11
MaxReadTicks == 1

InitReads ==
    InitMesh(<< <<"a", "b">>, <<"b", "c">> >>, <<>>,
             [NoBudget EXCEPT !.events = MaxReadEvents, !.ticks = MaxReadTicks,
                              !.reads = MaxReads])

NextReads ==
    \/ \E data \in EventData : DispatchSharedEvent("a", "move", data)
    \/ \E c \in DOMAIN conns, s \in Sides : OnEvent(c, s)
    \/ \E n \in Node : NextSharedEvent(n)
    \/ Tick

SpecReads == InitReads /\ [][NextReads]_vars /\ Fairness

\* The channels of one Mesh of the SharedDataChannel variant.
MaxChannelConnects == 2
MaxChannelRequests == 1
MaxChannelCloses == 1
MaxChannelFaults == 1
MaxChannelWrites == 1
MaxChannelEvents == 1

InitChannels ==
    InitMesh(<< <<"a", "b">>, <<"b", "c">> >>, <<>>,
             [NoBudget EXCEPT !.conns = MaxChannelConnects,
                              !.opens = MaxChannelRequests,
                              !.closes = MaxChannelCloses,
                              !.faults = MaxChannelFaults,
                              !.writes = MaxChannelWrites,
                              !.events = MaxChannelEvents])

NextChannels ==
    \/ \E remoteID \in RemoteIDs : ConnectDataChannel(remoteID)
    \/ \E remoteID \in RemoteIDs : ChannelRequested(remoteID)
    \/ \E l \in DOMAIN links : ChannelOnOpen(l)
    \/ \E l \in DOMAIN links : ChannelOnError(l)
    \/ \E l \in DOMAIN links : ChannelOnClose(l)
    \/ \E remoteID \in RemoteIDs : DisconnectDataChannel(remoteID)
    \/ \E remoteID \in RemoteIDs, key \in Keys, value \in Values :
           ChannelSetSharedVar(remoteID, key, value)
    \/ \E remoteID \in RemoteIDs, type \in EventTypes, data \in EventData :
           ChannelDispatchSharedEvent(remoteID, type, data)

SpecChannels == InitChannels /\ [][NextChannels]_vars

\* ICE servers are configured on two nodes that open and close their Peer.
MaxICEWrites == 2
MaxICEOpens == 2

InitICE ==
    /\ peer = [n \in Node |-> NoPeer]
    /\ id = [n \in Node |-> Null]
    /\ connections = [n \in Node |-> <<>>]
    /\ sharedVars = [n \in Node |-> <<>>]
    /\ sharedEventBuffer = [n \in Node |-> <<>>]
    /\ sharedEventIndex = [n \in Node |-> 0]
    /\ lastMeshEvent = [n \in Node |-> NoMeshEvent]
    /\ conns = <<>>
    /\ returned = [n \in Node |-> NoReturn]
    /\ now = 0
    /\ budget = [NoBudget EXCEPT !.opens = MaxICEOpens, !.closes = MaxCloses,
                                 !.writes = MaxICEWrites]
    /\ InitLayers

NextICE ==
    \/ \E n \in LifeNode, servers \in ICETexts : SetICEServers(n, servers)
    \/ \E n \in LifeNode, localID \in IDs : OpenPeer(n, localID)
    \/ \E n \in LifeNode : ClosePeer(n)
    \/ \E n \in LifeNode : PeerOnOpen(n)
    \/ \E n \in LifeNode : PeerOnError(n)

SpecICE == InitICE /\ [][NextICE]_vars

\* Identities of up to MaxIdLen characters go through the codec.
MaxIdLen == 3

InitCodec ==
    /\ peer = [n \in Node |-> NoPeer]
    /\ id = [n \in Node |-> Null]
    /\ connections = [n \in Node |-> <<>>]
    /\ sharedVars = [n \in Node |-> <<>>]
    /\ sharedEventBuffer = [n \in Node |-> <<>>]
    /\ sharedEventIndex = [n \in Node |-> 0]
    /\ lastMeshEvent = [n \in Node |-> NoMeshEvent]
    /\ conns = <<>>
    /\ returned = [n \in Node |-> NoReturn]
    /\ now = 0
    /\ budget = NoBudget
    /\ ice = [n \in Node |-> [iceServers |-> JSNull, ICEServers |-> JSUndefined,
                              config |-> JSUndefined]]
    /\ blocks = [n \in Node |-> [processingSharedEvent |-> JSNull,
                                 isPeerOpening |-> FALSE,
                                 timer |-> "nextEvent", threads |-> 0]]
    /\ channels = [reg |-> <<>>, objs |-> <<>>, result |-> "none"]
    /\ links = <<>>
    /\ \E k \in 1..MaxIdLen : \E s \in [1..k -> IdChars] :
          codec = [stage |-> "identity", meshID |-> s, peerID |-> <<>>,
                   decoded |-> <<>>]

SpecCodec == InitCodec /\ [][EncodeToPeerID \/ DecodeFromPeerID]_vars

\* Links of a mesh of three open nodes are closed and made again.
InitOrder ==
    \E topo \in Topologies :
        InitMesh(topo, <<>>, [NoBudget EXCEPT !.closes = MaxCloses,
                                              !.conns = MaxConns])

\* The steps of the handshake of connection c.
Handshake(c) ==
    /\ c \in DOMAIN conns
    /\ \/ \E m \in Node : PeerOnConnection(c, m)
       \/ NewConnectionOnOpen(c)
       \/ RequestedOnOpen(c)
       \/ OnSyncRequest(c)
       \/ OnSyncAnswer(c)

NextOrder ==
    \/ \E n \in Node, remoteID \in Node : CloseDataConnection(n, remoteID)
    \/ \E n \in Node, remoteID \in Node : OpenDataConnection(n, remoteID)
    \/ \E c \in DOMAIN conns, m \in Node : PeerOnConnection(c, m)
    \/ \E c \in DOMAIN conns : NewConnectionOnOpen(c)
    \/ \E c \in DOMAIN conns : RequestedOnOpen(c)
    \/ \E c \in DOMAIN conns : OnSyncRequest(c)
    \/ \E c \in DOMAIN conns : OnSyncAnswer(c)
    \/ \E c \in DOMAIN conns, s \in Sides : OnRemoteClose(c, s)

SpecOrder == InitOrder /\ [][NextOrder]_vars

\* Two nodes, open as "a" and "b" with empty stores and no links, connect
\* to each other over a transport that stays up.
InitConnect ==
    /\ peer = [n \in Node |-> IF n \in LifeNode
                              THEN [st |-> "open", id |-> encodeToPeerID(n)]
                              ELSE NoPeer]
    /\ id = [n \in Node |-> IF n \in LifeNode THEN n ELSE Null]
    /\ connections = [n \in Node |-> <<>>]
    /\ sharedVars = [n \in Node |-> <<>>]
    /\ sharedEventBuffer = [n \in Node |-> <<>>]
    /\ sharedEventIndex = [n \in Node |-> 0]
    /\ lastMeshEvent = [n \in Node |-> NoMeshEvent]
    /\ conns = <<>>
    /\ returned = [n \in Node |->
           IF n \in LifeNode THEN [NoReturn EXCEPT !.openPeer = <<"resolved">>]
           ELSE NoReturn]
    /\ now = 0
    /\ budget = [NoBudget EXCEPT !.conns = MaxConns]
    /\ InitLayers

NextConnect ==
    \/ \E n \in LifeNode, remoteID \in IDs : OpenDataConnection(n, remoteID)
    \/ \E c \in DOMAIN conns, m \in Node : PeerOnConnection(c, m)
    \/ \E c \in DOMAIN conns : NewConnectionOnOpen(c)
    \/ \E c \in DOMAIN conns : RequestedOnOpen(c)
    \/ \E c \in DOMAIN conns : OnSyncRequest(c)
    \/ \E c \in DOMAIN conns : OnSyncAnswer(c)

\* The transport stays up: every step of a handshake that can happen
\* eventually happens.
FairHandshake == \A c \in 1..MaxConns : WF_vars(Handshake(c))

SpecConnect == InitConnect /\ [][NextConnect]_vars /\ FairHandshake

\* =================================================================== claims
Quiescent == \A c \in DOMAIN conns, s \in Sides : conns[c].inbox[s] = <<>>

Linked(n, m) ==
    \E c \in DOMAIN conns : {conns[c].node.ini, conns[c].node.res} = {n, m}

\* C1: at the step at which the responder completes the handshake of a
\* connection its initiator has registered (the initiator's store being as it
\* was sent in sync-answer), the two stores agree on every key that was
\* present in either store before.
C1_HandshakeEqualizes ==
    [][\A c \in DOMAIN conns :
          LET A == conns[c].node.ini
              B == conns[c].node.res
          IN (/\ conns[c].st.ini = "setup" /\ conns'[c].st.ini = "setup"
              /\ conns[c].st.res = "sync" /\ conns'[c].st.res = "setup"
              /\ sharedVars[A] = Head(conns[c].inbox.res).vars)
             => \A k \in Keys :
                    (MapHas(sharedVars[A], k) \/ MapHas(sharedVars[B], k))
                    => MapGet(sharedVars'[A], k) = MapGet(sharedVars'[B], k)]_vars

\* C2: when a key is written once in a connected mesh, by any node, every
\* node of the mesh eventually holds the written value for it.
C2_SingleWriteConverges ==
    \A k \in Keys, v \in Values :
        (\E n \in Node : sharedVar(n, k) = v) ~> (\A m \in Node : sharedVar(m, k) = v)

\* C2 witness: in a chain, the two end nodes (not linked to each other) hold
\* the same written value and nothing is in flight any more.
C2_Witness ==
    /\ Quiescent
    /\ \E n \in Node, m \in Node, k \in Keys :
          /\ n # m /\ ~Linked(n, m)
          /\ sharedVar(n, k) \in Values
          /\ sharedVar(m, k) = sharedVar(n, k)

\* C3: once all messages are delivered, the stores of all nodes of a
\* connected mesh hold the same value for every key.
C3_QuiescentStoresEqual ==
    Quiescent => \A n \in Node, m \in Node, k \in Keys :
                     sharedVar(n, k) = sharedVar(m, k)

\* C4: an 'event' envelope whose (sender, time) pair is in the receiver's
\* buffer is dropped: the buffer is left as it is and nothing is relayed.
C4_DuplicateEventDropped ==
    [][\A c \in DOMAIN conns, s \in Sides :
          LET n == conns[c].node[s]
              buffer == sharedEventBuffer[n]
              data == Head(conns[c].inbox[s])
          IN (/\ OnEvent(c, s)
              /\ \E i \in DOMAIN buffer :
                    buffer[i].sender = data.sender /\ buffer[i].time = data.time)
             => /\ sharedEventBuffer'[n] = buffer
                /\ conns' = Taken(c, s).cs]_vars

Recorded(n, ev) ==
    \E i \in DOMAIN sharedEventBuffer[n] : sharedEventBuffer[n][i] = ev

\* C5: eventually every event a node has recorded (the dispatching node
\* records it at once) is recorded, with the same eventType and eventData, by
\* every node of the connected mesh, and stays so once dispatching ends; and a
\* node that handles an event it has not recorded relays that very envelope
\* on every registered link except the one it arrived on.
C5_EventReachesEveryNode ==
    /\ <>[](\A n \in Node, m \in Node :
                \A i \in DOMAIN sharedEventBuffer[n] :
                    Recorded(m, sharedEventBuffer[n][i]))
    /\ [][\A c \in DOMAIN conns, s \in Sides :
             LET n == conns[c].node[s]
                 data == Head(conns[c].inbox[s])
             IN (/\ OnEvent(c, s)
                 /\ data.sender # id[n]
                 /\ \A i \in DOMAIN sharedEventBuffer[n] : sharedEventBuffer[n][i] # data)
                => \A ep \in Registered(connections[n]) \ {<<c, s>>} :
                      LET inbox == conns[ep[1]].inbox[Other(ep[2])]
                      IN conns'[ep[1]].inbox[Other(ep[2])] = Append(inbox, data)]_vars

\* C5 witness: a node has recorded an event dispatched by a node it has no
\* link to.
C5_Witness ==
    \E n \in Node, m \in Node :
        /\ n # m /\ ~Linked(n, m)
        /\ \E i \in DOMAIN sharedEventBuffer[m] : sharedEventBuffer[m][i].sender = id[n]

\* C6: closeDataConnection(remoteID) closes the link to remoteID and removes
\* it from the registry, so that dataConnectionCount() decreases by one; with
\* no link to remoteID it changes nothing.
C6_CloseDataConnectionRemoves ==
    [][\A n \in Node, remoteID \in IDs :
          CloseDataConnection(n, remoteID) =>
              IF MapHas(connections[n], remoteID)
              THEN /\ ~IsOpen(conns', MapGet(connections[n], remoteID))
                   /\ ~MapHas(connections'[n], remoteID)
                   /\ Len(connections'[n]) = Len(connections[n]) - 1
              ELSE UNCHANGED <<connections, conns, sharedVars>>]_vars

\* C7: dataConnectionCount() goes up by one with every handshake the node
\* completes and down by one with every registered link that closes.
C7_CountFollowsLinks ==
    [][\A n \in Node :
          LET done == {ep \in EndpointsAt(conns, n) :
                          /\ conns[ep[1]].st[ep[2]] = "sync"
                          /\ conns'[ep[1]].st[ep[2]] = "setup"}
              gone == {ep \in Registered(connections[n]) :
                          /\ conns[ep[1]].st[ep[2]] = "setup"
                          /\ conns'[ep[1]].st[ep[2]] = "closed"}
          IN Len(connections'[n]) =
                 Len(connections[n]) + Cardinality(done) - Cardinality(gone)]_vars

\* C8: every connection that is set up and open is the one its node's
\* registry holds for its remote identity: a link that is replaced in the
\* registry has been closed.
C8_NoLiveLinkOutsideRegistry ==
    \A c \in DOMAIN conns, s \in Sides :
        conns[c].st[s] = "setup" =>
            MapGet(connections[conns[c].node[s]], conns[c].remote[s]) = <<c, s>>

\* C9: when closePeer() returns every link that was registered is closed, the
\* registry is empty, peer and id are null; on a closed node it changes none
\* of these.
C9_ClosePeerClosesAll ==
    [][\A n \in Node :
          (ClosePeer(n) \/ PeerOnError(n)) =>
              /\ \A ep \in Registered(connections[n]) : ~IsOpen(conns', ep)
              /\ connections'[n] = <<>>
              /\ peer'[n] = NoPeer
              /\ id'[n] = Null
              /\ peer[n] = NoPeer =>
                     /\ id'[n] = id[n]
                     /\ connections'[n] = connections[n]
                     /\ conns' = conns]_vars

\* C9 witness: a node with no peer any more whose registered, set-up link was
\* closed by closePeer() (no second openPeer call was made on the way).
C9_Witness ==
    \E c \in DOMAIN conns, s \in Sides :
        /\ conns[c].node[s] \in Node
        /\ peer[conns[c].node[s]] = NoPeer
        /\ conns[c].st[s] = "closed"
        /\ lastMeshEvent[conns[c].node[s]].type = "dataConnectionClosed"
        /\ budget.closes < MaxCloses
        /\ budget.opens >= MaxOpens - 2

\* C10: closePeer() and the steps of a later openPeer(), under whatever
\* identity, leave every value of the shared-variable store as it was.
C10_ClosePeerKeepsVars ==
    [][\A n \in Node :
          (\/ ClosePeer(n)
           \/ PeerOnError(n)
           \/ PeerOnOpen(n)
           \/ \E localID \in IDs : OpenPeer(n, localID))
          => \A k \in Keys : MapGet(sharedVars'[n], k) = MapGet(sharedVars[n], k)]_vars

\* C10 witness: a node that wrote a value, was closed and is open again under
\* another identity still holds the value.
C10_Witness ==
    /\ peer["a"].st = "open" /\ id["a"] = "b"
    /\ budget.closes < MaxCloses
    /\ sharedVar("a", "x") \in Values

\* C11: openPeer(localID) on a node that is open under localID resolves at
\* once and leaves the binding, the identity, the registry, every connection
\* and the store as they are.
C11_OpenPeerSameIdentityNoOp ==
    [][\A n \in Node, localID \in IDs :
          (OpenPeer(n, localID) /\ peer[n].st = "open" /\ id[n] = localID)
          => /\ UNCHANGED <<peer, id, connections, conns, sharedVars, lastMeshEvent>>
             /\ returned'[n].openPeer = Append(returned[n].openPeer, "resolved")]_vars

\* C11 witness: a node that holds an open registered link has had two
\* openPeer calls, both resolved, and was never closed.
C11_Witness ==
    \E n \in Node :
        /\ returned[n].openPeer = <<"resolved", "resolved">>
        /\ peer[n].st = "open"
        /\ budget.closes = MaxCloses
        /\ \E r \in IDs : isDataConnectionOpen(n, r)

\* The identity node-side s of connection c was created under.
BoundAs(c, s) ==
    IF s = "ini" THEN conns[c].remote.res ELSE decodeFromPeerID(conns[c].target)

\* C12: openPeer(localID) on a node open under another identity closes every
\* registered link and every other connection of the old Peer, empties the
\* registry, clears the identity and only then holds the request for the new
\* binding; and the registry of a node never holds a link that was created
\* under another identity than the one its Peer is bound to.
C12_ReopenClosesFirst ==
    /\ [][\A n \in Node, localID \in IDs :
             (OpenPeer(n, localID) /\ peer[n].st = "open" /\ id[n] # localID)
             => /\ \A ep \in Registered(connections[n]) : ~IsOpen(conns', ep)
                /\ EndpointsAt(conns', n) = {}
                /\ connections'[n] = <<>>
                /\ id'[n] = Null
                /\ peer'[n] = [st |-> "opening", id |-> encodeToPeerID(localID)]]_vars
    /\ [](\A n \in Node :
             peer[n].st # "null" =>
                 \A ep \in Registered(connections[n]) :
                     BoundAs(ep[1], ep[2]) = decodeFromPeerID(peer[n].id))

\* C12 witness: a node asks for a binding under another identity than the
\* one its link was set up under; it closed the link itself (closePeer was
\* never called by the application, the other end is still open).
C12_Witness ==
    \E c \in DOMAIN conns, s \in Sides :
        /\ conns[c].st[s] = "closed" /\ conns[c].st[Other(s)] = "setup"
        /\ budget.closes = MaxCloses
        /\ peer[conns[c].node[s]].st = "opening"
        /\ decodeFromPeerID(peer[conns[c].node[s]].id) # BoundAs(c, s)
        /\ lastMeshEvent[conns[c].node[s]].type = "dataConnectionClosed"

\* C13: when the transport refuses the identity openPeer asked for, the
\* Promise of that call is rejected and the node is closed: peer and id are
\* null, the registry is empty and no connection of the node is left.
C13_RefusedIdentityCloses ==
    [][\A n \in Node :
          PeerOnError(n) =>
              /\ returned[n].openPeer[Len(returned[n].openPeer)] = "pending"
              /\ returned'[n].openPeer =
                     [returned[n].openPeer EXCEPT ![Len(returned[n].openPeer)] = "rejected"]
              /\ peer'[n] = NoPeer
              /\ id'[n] = Null
              /\ connections'[n] = <<>>
              /\ EndpointsAt(conns', n) = {}]_vars

\* C13 witness: a node whose latest openPeer call was rejected because the
\* other node is open under the identity it asked for.
C13_Witness ==
    \E n \in Node, m \in Node :
        /\ n # m
        /\ returned[n].openPeer # <<>>
        /\ returned[n].openPeer[Len(returned[n].openPeer)] = "rejected"
        /\ peer[n] = NoPeer /\ id[n] = Null
        /\ peer[m].st = "open"

\* C14: openDataConnection(remoteID) with an empty remoteID, or on a node
\* that is not open, fails at once (throws or returns a rejected Promise),
\* asks the transport for no connection and leaves registry and store alone.
C14_ConnectFailsImmediately ==
    [][\A n \in Node, remoteID \in IDs \cup {""} :
          (OpenDataConnection(n, remoteID) /\ (remoteID = "" \/ peer[n].st # "open"))
          => /\ returned'[n].openDataConnection.kind \in {"threw", "rejected"}
             /\ UNCHANGED <<conns, connections, sharedVars>>]_vars

\* C15: openDataConnection(remoteID) on a node whose registry holds an open
\* link to remoteID resolves with that link, asks the transport for no
\* connection, sends nothing and leaves the registry as it is.
C15_ConnectReturnsOpenLink ==
    [][\A n \in Node, remoteID \in IDs :
          (/\ OpenDataConnection(n, remoteID)
           /\ MapHas(connections[n], remoteID)
           /\ IsOpen(conns, MapGet(connections[n], remoteID)))
          => /\ returned'[n].openDataConnection =
                    [kind |-> "resolved", ep |-> MapGet(connections[n], remoteID)]
             /\ UNCHANGED <<conns, connections, sharedVars, peer, id, lastMeshEvent>>]_vars

\* C15 witness: the last openDataConnection call of a node returned a link
\* that is registered and open, and the call created no connection.
C15_Witness ==
    \E n \in Node :
        /\ returned[n].openDataConnection.kind = "resolved"
        /\ IsOpen(conns, returned[n].openDataConnection.ep)
        /\ returned[n].openDataConnection.ep \in Registered(connections[n])
        /\ budget.conns = 0 /\ Len(conns) = 1

\* C16: when the transport fails or closes the initiator's end of a
\* connection before its handshake has completed, the pending Promise of
\* openDataConnection is rejected; and a connection is in a registry only
\* once its handshake has completed on that side.
C16_HandshakeFailureRejects ==
    /\ [][\A c \in DOMAIN conns :
             (/\ ConnectionOnError(c, "ini") \/ OnRemoteClose(c, "ini")
              /\ conns[c].promise = "pending")
             => conns'[c].promise = "rejected"]_vars
    /\ [](\A n \in Node : \A ep \in Registered(connections[n]) :
             conns[ep[1]].st[ep[2]] \in {"setup", "closed"})

\* C17: no Promise is left pending by a close: the Promise of an openPeer
\* call is pending only while its Peer waits for the server, the Promise of
\* an openDataConnection call only while its connection is being set up.
C17_NoPromiseLeftPending ==
    /\ \A n \in Node : \A i \in DOMAIN returned[n].openPeer :
           returned[n].openPeer[i] = "pending" =>
               i = Len(returned[n].openPeer) /\ peer[n].st = "opening"
    /\ \A c \in DOMAIN conns :
           conns[c].promise = "pending" => conns[c].st.ini \in {"connecting", "sync"}

\* C18: an error of the transport on one connection, or while connecting to
\* one remote identity, leaves the node open under its identity and its
\* other links as they are, and the affected link is not in the registry
\* afterwards.
C18_LinkErrorNotFatal ==
    [][\A c \in DOMAIN conns, s \in Sides :
          ((s = "ini" /\ PeerOnUnavailable(c)) \/ ConnectionOnError(c, s))
          => LET n == conns[c].node[s]
             IN /\ peer'[n] = peer[n]
                /\ id'[n] = id[n]
                /\ \A ep \in Registered(connections[n]) \ {<<c, s>>} :
                       conns'[ep[1]].st[ep[2]] = conns[ep[1]].st[ep[2]]
                /\ <<c, s>> \notin Registered(connections'[n])]_vars

\* C19: dataConnectionIDAt(i), 0 <= i < dataConnectionCount(), enumerates
\* the registered identities in the order in which their links were
\* registered: the identity of a link a node has just registered is the last
\* one enumerated, and no step changes the relative order of two identities
\* that stay registered.
C19_EnumerationByRegistration ==
    [][\A n \in Node :
          /\ \A ep \in EndpointsAt(conns, n) :
                 (/\ conns[ep[1]].st[ep[2]] = "sync"
                  /\ conns'[ep[1]].st[ep[2]] = "setup")
                 => MapKeys(connections'[n])[Len(connections'[n])]
                        = conns[ep[1]].remote[ep[2]]
          /\ \A i \in DOMAIN connections[n], j \in DOMAIN connections[n] :
                 i < j =>
                     \A k \in DOMAIN connections'[n], l \in DOMAIN connections'[n] :
                         (/\ connections'[n][k][1] = connections[n][i][1]
                          /\ connections'[n][l][1] = connections[n][j][1])
                         => k < l]_vars

\* C20: once a node has asked for a connection to the other, the handshake
\* completes: the Promise of openDataConnection is resolved, both nodes
\* count one link, and the two stores are still empty.
C20_ConnectCompletes ==
    \A c \in 1..MaxConns :
        (c \in DOMAIN conns) ~>
            (/\ c \in DOMAIN conns
             /\ conns[c].promise = "resolved"
             /\ \A n \in LifeNode : dataConnectionCount(n) = 1
             /\ \A n \in LifeNode : sharedVars[n] = <<>>)

\* C20 witness: one call was made, its Promise is resolved, the connection
\* is set up on both sides and registered under the other node's identity.
C20_Witness ==
    /\ Len(conns) = 1 /\ budget.conns = MaxConns - 1
    /\ conns[1].promise = "resolved"
    /\ conns[1].st = [ini |-> "setup", res |-> "setup"]
    /\ isDataConnectionOpen(conns[1].node.ini, id[conns[1].node.res])
    /\ isDataConnectionOpen(conns[1].node.res, id[conns[1].node.ini])

\* C23: after finitely many setSharedVar calls the relaying of 'var'
\* envelopes comes to an end: eventually no envelope is in flight, and none
\* is sent again.
C23_VarFloodingEnds == <>[]Quiescent


\* C22: a 'var' envelope whose value equals the value the receiving node
\* already stores for the key is dropped: it is taken from the link and
\* nothing else happens -- no envelope is sent on any link, the store is
\* unchanged and no listener is notified.
C22_SameValueDropped ==
    [][\A c \in DOMAIN conns, s \in Sides :
          (/\ OnVar(c, s)
           /\ MapGet(sharedVars[conns[c].node[s]], Head(conns[c].inbox[s]).key)
                  = Head(conns[c].inbox[s]).value)
          => /\ conns' = [conns EXCEPT ![c].inbox[s] = Tail(@)]
             /\ sharedVars' = sharedVars
             /\ lastMeshEvent' = lastMeshEvent]_vars

\* One write on the triangle has been delivered everywhere: each of the two
\* other nodes has received the relayed copy of the value it already held.
C22_Witness ==
    /\ Len(conns) = 3
    /\ budget.writes = MaxFloodWrites - 1
    /\ Quiescent
    /\ \A n \in Node : sharedVar(n, "x") = "1"

\* C24: a node that receives on link L a 'var' envelope whose value differs
\* from the stored one stores the value and sends the identical envelope
\* exactly once on every other registered link, and nothing on L or on any
\* link of another node.
C24_RelayToOthersOnly ==
    [][\A c \in DOMAIN conns, s \in Sides :
          (/\ OnVar(c, s)
           /\ MapGet(sharedVars[conns[c].node[s]], Head(conns[c].inbox[s]).key)
                  # Head(conns[c].inbox[s]).value)
          => LET n == conns[c].node[s]
                 data == Head(conns[c].inbox[s])
                 before(d, t) == IF <<d, t>> = <<c, s>>
                                 THEN Tail(conns[d].inbox[t])
                                 ELSE conns[d].inbox[t]
             IN /\ MapGet(sharedVars'[n], data.key) = data.value
                /\ \A d \in DOMAIN conns, t \in Sides :
                      conns'[d].inbox[t] =
                          IF /\ \E i \in DOMAIN connections[n] :
                                    connections[n][i][2] = <<d, Other(t)>>
                             /\ <<d, Other(t)>> # <<c, s>>
                             /\ conns[d].st[Other(t)] \in {"sync", "setup"}
                             /\ conns[d].st[t] # "closed"
                          THEN Append(before(d, t), data)
                          ELSE before(d, t)]_vars

\* An envelope is in flight on a link of a node that is not its sender: a
\* relayed copy.
C24_Witness ==
    \E c \in DOMAIN conns, s \in Sides :
        \E i \in DOMAIN conns[c].inbox[s] :
            /\ conns[c].inbox[s][i].type = "var"
            /\ conns[c].inbox[s][i].sender # id[conns[c].node[Other(s)]]


\* C21: the event buffer of a node never holds more than
\* sharedEventBufferLength (10) envelopes once onSharedEvent has returned;
\* recording an envelope appends it, and when that exceeds the length exactly
\* the oldest envelope is evicted, so the buffer holds the most recent
\* envelopes in recording order.
MostRecent(seq) ==
    IF Len(seq) > 10 THEN SubSeq(seq, Len(seq) - 9, Len(seq)) ELSE seq

C21_BufferBounded ==
    [][\A n \in Node :
          /\ Len(sharedEventBuffer'[n]) <= 10
          /\ sharedEventBuffer'[n] # sharedEventBuffer[n]
                => sharedEventBuffer'[n] =
                      MostRecent(Append(sharedEventBuffer[n],
                          sharedEventBuffer'[n][Len(sharedEventBuffer'[n])]))
          /\ \A type \in EventTypes, data \in EventData :
                DispatchSharedEvent(n, type, data)
                => sharedEventBuffer'[n] =
                      MostRecent(Append(sharedEventBuffer[n],
                          [sender |-> id[n], time |-> now, type |-> "event",
                           eventType |-> type, eventData |-> data]))]_vars

\* A node has recorded an eleventh event: its buffer is full and no longer
\* starts with the first event it recorded at time 0.
C21_Witness ==
    \E n \in Node :
        /\ Len(sharedEventBuffer[n]) = 10
        /\ budget.events <= MaxBufferEvents - 11
        /\ sharedEventBuffer[n][1].time = 1


\* C25: setSharedVar(key, value) sets the caller's own stored value to value
\* and sends one 'var' envelope {sender, time, key, value} on every link of
\* the caller that is open (set up), and nothing on a link that is closed or
\* still in its handshake, nor on a link of another node; no send is tried on
\* a link that is not open, so no send error is notified.
C25_WriteReachesOpenLinks ==
    [][\A n \in Node, key \in Keys, value \in Values :
          SetSharedVar(n, key, value) =>
              /\ MapGet(sharedVars'[n], key) = value
              /\ lastMeshEvent'[n] = lastMeshEvent[n]
              /\ \A d \in DOMAIN conns, t \in Sides :
                    conns'[d].inbox[t] =
                        IF /\ conns[d].node[Other(t)] = n
                           /\ conns[d].st[Other(t)] = "setup"
                           /\ conns[d].st[t] # "closed"
                        THEN Append(conns[d].inbox[t],
                                 [type |-> "var", sender |-> id[n], time |-> now,
                                  key |-> key, value |-> value])
                        ELSE conns[d].inbox[t]]_vars


\* C26: the merge of the pairs of a received sync-request (initiator) or
\* sync-answer (responder) into the local store sends nothing on any other
\* connection: the step changes the content of no link but the one whose
\* handshake it is.
C26_MergeSendsNothing ==
    [][\A c \in DOMAIN conns :
          (OnSyncRequest(c) \/ OnSyncAnswer(c)) =>
              \A d \in DOMAIN conns \ {c}, t \in Sides :
                  conns'[d].inbox[t] = conns[d].inbox[t]]_vars


\* C28: when the responder completes a handshake whose sync-answer carries,
\* for a key the responder holds, another value than the responder's (the
\* responder has changed the key since it sent its sync-request), the
\* responder keeps its newer value, and the initiator holds that value or is
\* being sent it on the link, so that both agree once it is delivered.
C28_ResponderRaceKeepsNewer ==
    [][\A c \in DOMAIN conns, k \in Keys :
          (/\ OnSyncAnswer(c)
           /\ Head(conns[c].inbox.res).type = "control"
           /\ Head(conns[c].inbox.res).command = "syncAnswer"
           /\ conns[c].st.ini = "setup"
           /\ MapHas(sharedVars[conns[c].node.res], k)
           /\ MapGet(Head(conns[c].inbox.res).vars, k)
                  # MapGet(sharedVars[conns[c].node.res], k))
          => LET v == MapGet(sharedVars[conns[c].node.res], k)
             IN /\ MapGet(sharedVars'[conns[c].node.res], k) = v
                /\ \/ MapGet(sharedVars'[conns[c].node.ini], k) = v
                   \/ \E i \in DOMAIN conns'[c].inbox.ini :
                         /\ conns'[c].inbox.ini[i].type = "var"
                         /\ conns'[c].inbox.ini[i].key = k
                         /\ conns'[c].inbox.ini[i].value = v]_vars


\* C27: every dispatchSharedEvent stamps the envelope with a timestamp that
\* is strictly greater than the timestamp of every event the same node has
\* dispatched before, so that two dispatches of one node never share
\* (sender, time).
C27_FreshTimestamp ==
    [][\A n \in Node, type \in EventTypes, data \in EventData :
          DispatchSharedEvent(n, type, data) =>
              \A i \in DOMAIN sharedEventBuffer[n] :
                  sharedEventBuffer[n][i].sender = id[n]
                      => sharedEventBuffer[n][i].time < now]_vars


\* C29: when only node a writes key x, first v1 and then v2, then once the
\* envelopes have been delivered every node, a included, holds v2 and keeps
\* it: no relayed copy of v1 replaces v2 afterwards.
C29_SingleWriterOrder ==
    <>[](budget.writes = 0 =>
            \A n \in Node : sharedVar(n, "x") = WriterValues[Len(WriterValues)])


\* C30: every dispatched event is sent only finitely many times, also in a
\* mesh with a cycle that does not contain the node that dispatched it and at
\* nodes whose buffer holds other events: eventually no copy of an event
\* envelope is in flight on any link, and none is sent again.
C30_EventFloodingEnds ==
    <>[](\A c \in DOMAIN conns, s \in Sides :
            \A i \in DOMAIN conns[c].inbox[s] :
                conns[c].inbox[s][i].type # "event")


\* C31: a node that receives an 'event' envelope whose sender is its own
\* identity only takes it from the link: it records nothing, notifies nobody
\* and relays nothing; and the entries of a node's buffer that carry its own
\* identity change only when the node itself dispatches.
OwnEvents(n, buffer) == SelectSeq(buffer, LAMBDA e : e.sender = id[n])

C32_EveryEventProcessed ==
    /\ [](\A n \in Node : blocks[n].timer # "none")
    /\ \A n \in Node, i \in 1..MaxBlockEvents :
          (Len(sharedEventBuffer[n]) >= i)
              ~> (/\ sharedEventIndex[n] = i
                  /\ blocks[n].processingSharedEvent = sharedEventBuffer[n][i])

\* C33: the event being processed is replaced, and the next event taken from
\* the Mesh, only in a step before which no thread started for the current
\* event is running.
C33_OneEventAtATime ==
    [][\A n \in Node :
          (\/ blocks'[n].processingSharedEvent # blocks[n].processingSharedEvent
           \/ sharedEventIndex'[n] # sharedEventIndex[n])
              => blocks[n].threads = 0]_vars

\* A second event is being processed, its threads running, after the
\* threads of the first one were retired.
C33_Witness ==
    \E n \in Node :
        /\ sharedEventIndex[n] = 2
        /\ blocks[n].processingSharedEvent = sharedEventBuffer[n][2]
        /\ blocks[n].threads > 0

\* C34: whenever the openPeer block has set isPeerOpening it is set back to
\* false later, also when closePeer runs while the open is pending.
C34_GuardReleased ==
    \A n \in LifeNode :
        blocks[n].isPeerOpening ~> ~blocks[n].isPeerOpening

\* C35: a node without a Peer has no identity and an empty registry, and so
\* has a node without an identity; no envelope in flight carries a null
\* sender; and a connection is registered only while it is open at the node,
\* so that a handshake closePeer has cut off registers nothing afterwards.
C35_UnboundHasNoLinks ==
    /\ [](\A n \in Node :
            /\ peer[n].st = "null" => id[n] = Null
            /\ id[n] = Null => connections[n] = <<>>)
    /\ [](\A c \in DOMAIN conns, s \in Sides :
            \A i \in DOMAIN conns[c].inbox[s] :
                conns[c].inbox[s][i].sender # Null)
    /\ [][\A n \in Node :
            \A ep \in Registered(connections'[n]) \ Registered(connections[n]) :
                /\ conns'[ep[1]].node[ep[2]] = n
                /\ IsOpen(conns', ep)
                /\ peer'[n].st = "open"]_vars

\* closePeer ran on the node that had asked for a connection whose handshake
\* the other node had begun: the connection is closed at the caller, its
\* Promise still pending, and the caller has no Peer.
C35_Witness ==
    \E c \in DOMAIN conns :
        /\ conns[c].promise = "pending"
        /\ conns[c].st.ini = "closed"
        /\ conns[c].st.res # "none"
        /\ peer[conns[c].node.ini].st = "null"
        /\ budget.closes < MaxCloses

\* The recorded events nextSharedEvent has not handed out yet, oldest first.
Unreturned(buffer, index) == SubSeq(buffer, index + 1, Len(buffer))

\* C36: the index stays within 0..length of the buffer.  A nextSharedEvent
\* call returns the oldest recorded event not yet returned and takes exactly
\* that one off the unreturned events, or returns undefined when (and only
\* when) none is left; every other step leaves the unreturned events alone,
\* but for a newly recorded event at their end and the eviction of the
\* oldest one from a full buffer.
C36_NextSharedEventInOrder ==
    /\ [](\A n \in Node : /\ 0 <= sharedEventIndex[n]
                          /\ sharedEventIndex[n] <= Len(sharedEventBuffer[n]))
    /\ [][\A n \in Node :
            LET u == Unreturned(sharedEventBuffer[n], sharedEventIndex[n])
                v == Unreturned(sharedEventBuffer'[n], sharedEventIndex'[n])
                r == returned'[n].nextSharedEvent
            IN IF NextSharedEvent(n)
               THEN IF u = <<>> THEN r = JSUndefined /\ v = u
                    ELSE r = Head(u) /\ v = Tail(u)
               ELSE \/ v = u
                    \/ /\ Len(sharedEventBuffer'[n]) > 0
                       /\ LET e == sharedEventBuffer'[n][Len(sharedEventBuffer'[n])]
                          IN \/ v = Append(u, e)
                             \/ /\ Len(u) = sharedEventBufferLength
                                /\ v = Tail(Append(u, e))]_vars

\* The event a node's nextSharedEvent returned last has been evicted from
\* its full buffer since, which moved the index back to 0.
C36_Witness ==
    \E n \in Node :
        /\ Len(sharedEventBuffer[n]) = sharedEventBufferLength
        /\ returned[n].nextSharedEvent \notin {JSUndefined, [type |-> "none"]}
        /\ \A i \in DOMAIN sharedEventBuffer[n] :
              sharedEventBuffer[n][i] # returned[n].nextSharedEvent
        /\ sharedEventIndex[n] = 0

\* C37: the state of a channel moves only along opening -> open -> closed,
\* or to error before it was open; closed and error are never left
\* ('created' is the state of the object before it is opened).
C37_ChannelStateMachine ==
    [][\A o \in DOMAIN channels.objs :
          channels'.objs[o].state # channels.objs[o].state
              => <<channels.objs[o].state, channels'.objs[o].state>> \in
                     { <<"created", "opening">>, <<"created", "open">>,
                       <<"created", "error">>, <<"opening", "open">>,
                       <<"opening", "error">>, <<"open", "closed">> }]_vars

\* C38: no registered channel is in state closed or error; and a
\* setSharedVar or dispatchSharedEvent call on a channel that is not open
\* gives "not connected", sends nothing, raises nothing on the connection
\* and leaves the channel's variables and last event as they were.
C38_ClosedChannelUnusable ==
    /\ [](\A i \in DOMAIN channels.reg :
            channels.objs[channels.reg[i][2]].state \notin {"closed", "error"})
    /\ [][\A remoteID \in RemoteIDs :
            (/\ MapHas(channels.reg, remoteID)
             /\ channels.objs[MapGet(channels.reg, remoteID)].state # "open"
             /\ \/ \E key \in Keys, value \in Values :
                       ChannelSetSharedVar(remoteID, key, value)
                \/ \E type \in EventTypes, data \in EventData :
                       ChannelDispatchSharedEvent(remoteID, type, data))
                => /\ channels'.result = "not connected"
                   /\ links' = links
                   /\ channels'.objs = channels.objs]_vars

\* C39: once setICEServers has stored a configuration, an openPeer call
\* that constructs a Peer passes it that configuration; a stored non-empty
\* list is never replaced by the empty default.
C39_ConfiguredICEServersUsed ==
    [][\A n \in LifeNode, localID \in IDs :
          (/\ OpenPeer(n, localID)
           /\ ~(peer[n].st # "null" /\ id[n] = localID)
           /\ ice[n].ICEServers # JSUndefined)
              => ice'[n].config = ice[n].ICEServers]_vars

\* C40: decodeFromPeerID(encodeToPeerID(s)) = s for every identity s: the
\* wrapping in "0".."0" and the replacement of "=" by "0equal0" are undone
\* exactly; the base64 text of an identity never contains "0equal0" itself.
C40_CodecRoundTrip ==
    LET Contains(text, pattern) ==
            \E i \in 1..(Len(text) - Len(pattern) + 1) :
                SubSeq(text, i, i + Len(pattern) - 1) = pattern
    IN /\ codec.stage = "decoded" => codec.decoded = codec.meshID
       /\ ~Contains(btoa(encodeURIComponent(codec.meshID)), Equal0)

\* An identity whose base64 text ends with "0" before its padding, so that
\* the identifier holds "00equal0", has come back from the codec.
C40_Witness ==
    LET Contains(text, pattern) ==
            \E i \in 1..(Len(text) - Len(pattern) + 1) :
                SubSeq(text, i, i + Len(pattern) - 1) = pattern
    IN /\ codec.stage = "decoded"
       /\ Contains(btoa(encodeURIComponent(codec.meshID)), <<"0", "=">>)
       /\ Contains(codec.peerID, <<"0">> \o Equal0)
       /\ Contains(codec.meshID, <<"e'">>)
       /\ codec.decoded = codec.meshID

====
